---- MODULE Spec2Model ----
(***************************************************************************)
(* Half-shekel value calculator (server.js): the /api/half-shekel request  *)
(* handler, its two provider chains (silver price, USD/ILS rate), the      *)
(* provider parsers and the value normalizers they use (Spec); the visit   *)
(* statistics and the admin token that guards them (VisitSpec); one        *)
(* invocation of fetchJson / fetchText with its timer (FetchSpec); the     *)
(* parsers and normalizers applied to one value (ParseSpec); the pipeline  *)
(* when every outbound call settles (LiveSpec); the retry loop of the page *)
(* in public/app.js (PageSpec) and its loadHalfShekel when every request   *)
(* settles (PageLiveSpec).                                                 *)
(*                                                                         *)
(* JavaScript numbers are modelled as exact rationals [n, d] in lowest     *)
(* terms with d > 0, extended with NaN (0/0), Infinity (1/0) and           *)
(* -Infinity (-1/0); rounding of IEEE doubles is not modelled.             *)
(* JavaScript strings are TLA+ strings, read character by character.       *)
(* Error messages are sequences of string fragments (a template literal    *)
(* is the concatenation of its fragments).                                 *)
(***************************************************************************)
EXTENDS Integers, Sequences, FiniteSets, TLC

(***************************************************************************)
(* Numbers                                                                 *)
(***************************************************************************)
Abs(i) == IF i < 0 THEN -i ELSE i

Sign(i) == IF i < 0 THEN -1 ELSE IF i > 0 THEN 1 ELSE 0

RECURSIVE Gcd(_, _)
Gcd(a, b) == IF b = 0 THEN a ELSE Gcd(b, a % b)

NaN == [n |-> 0, d |-> 0]

Infinity == [n |-> 1, d |-> 0]

\* the rational a/b (b # 0) in lowest terms
Rat(a, b) ==
  LET g == Gcd(Abs(a), Abs(b))
  IN [n |-> Sign(b) * (a \div g), d |-> Abs(b) \div g]

Whole(i) == [n |-> i, d |-> 1]

\* Number.isFinite on a number
IsFinite(x) == x.d # 0

IsNaN(x) == x.d = 0 /\ x.n = 0

NumSign(x) == Sign(x.n)

\* JavaScript x * y
NumMul(x, y) ==
  IF IsNaN(x) \/ IsNaN(y) THEN NaN
  ELSE IF ~IsFinite(x) \/ ~IsFinite(y)
    THEN IF x.n = 0 \/ y.n = 0 THEN NaN
         ELSE [n |-> NumSign(x) * NumSign(y), d |-> 0]
  ELSE LET g1 == Gcd(Abs(x.n), y.d)
           g2 == Gcd(Abs(y.n), x.d)
       IN [n |-> (x.n \div g1) * (y.n \div g2), d |-> (x.d \div g2) * (y.d \div g1)]

\* JavaScript x / y for finite x and finite non-zero y
NumDiv(x, y) == NumMul(x, [n |-> Sign(y.n) * y.d, d |-> Abs(y.n)])

\* JavaScript x + y
NumAdd(x, y) ==
  IF IsNaN(x) \/ IsNaN(y) THEN NaN
  ELSE IF ~IsFinite(x) THEN (IF ~IsFinite(y) /\ y.n # x.n THEN NaN ELSE x)
  ELSE IF ~IsFinite(y) THEN y
  ELSE Rat(x.n * y.d + y.n * x.d, x.d * y.d)

(***************************************************************************)
(* Strings                                                                 *)
(***************************************************************************)
CharAt(s, i) == SubSeq(s, i, i)

Whitespace == {" ", "\t", "\n", "\r"}

Digits == {"0", "1", "2", "3", "4", "5", "6", "7", "8", "9"}

DigitVal(c) ==
  CASE c = "0" -> 0 [] c = "1" -> 1 [] c = "2" -> 2 [] c = "3" -> 3 [] c = "4" -> 4
    [] c = "5" -> 5 [] c = "6" -> 6 [] c = "7" -> 7 [] c = "8" -> 8 [] c = "9" -> 9

RECURSIVE TrimStart(_)
TrimStart(s) ==
  IF Len(s) > 0 /\ CharAt(s, 1) \in Whitespace THEN TrimStart(SubSeq(s, 2, Len(s))) ELSE s

RECURSIVE TrimEnd(_)
TrimEnd(s) ==
  IF Len(s) > 0 /\ CharAt(s, Len(s)) \in Whitespace THEN TrimEnd(SubSeq(s, 1, Len(s) - 1)) ELSE s

\* String.prototype.trim
Trim(s) == TrimEnd(TrimStart(s))

\* String.prototype.includes for a one-character needle
Includes(s, c) == \E i \in 1..Len(s) : CharAt(s, i) = c

\* the j-th smallest position of the set `at`, 0 for j = 0 and Len(s) + 1 past the last
NthPosition(s, at, j) ==
  IF j = 0 THEN 0
  ELSE IF j > Cardinality(at) THEN Len(s) + 1
  ELSE CHOOSE i \in at : Cardinality({x \in at : x < i}) = j - 1

PiecesBetween(s, at) ==
  [j \in 1..(Cardinality(at) + 1) |->
     SubSeq(s, NthPosition(s, at, j - 1) + 1, NthPosition(s, at, j) - 1)]

\* String.prototype.split on a one-character separator: the pieces between
\* consecutive separator positions
Split(s, sep) == PiecesBetween(s, {i \in 1..Len(s) : CharAt(s, i) = sep})

\* String.prototype.replaceAll(c, "") : every c removed
RECURSIVE RemoveAll(_, _)
RemoveAll(s, c) ==
  IF Len(s) = 0 THEN s
  ELSE IF CharAt(s, 1) = c THEN RemoveAll(SubSeq(s, 2, Len(s)), c)
  ELSE CharAt(s, 1) \o RemoveAll(SubSeq(s, 2, Len(s)), c)

\* String.prototype.replace(c, r) : the first c replaced by r
RECURSIVE ReplaceFirst(_, _, _)
ReplaceFirst(s, c, r) ==
  IF Len(s) = 0 THEN s
  ELSE IF CharAt(s, 1) = c THEN r \o SubSeq(s, 2, Len(s))
  ELSE CharAt(s, 1) \o ReplaceFirst(SubSeq(s, 2, Len(s)), c, r)

AllDigits(s) == \A i \in 1..Len(s) : CharAt(s, i) \in Digits

RECURSIVE DigitsValue(_)
DigitsValue(s) ==
  IF Len(s) = 0 THEN 0 ELSE 10 * DigitsValue(SubSeq(s, 1, Len(s) - 1)) + DigitVal(CharAt(s, Len(s)))

RECURSIVE Pow10(_)
Pow10(k) == IF k = 0 THEN 1 ELSE 10 * Pow10(k - 1)

\* the value of the integer and fraction digits of a decimal literal
DecimalParts(parts) ==
  IF Len(parts) = 1
    THEN IF Len(parts[1]) > 0 /\ AllDigits(parts[1]) THEN Whole(DigitsValue(parts[1])) ELSE NaN
  ELSE IF Len(parts) = 2 /\ AllDigits(parts[1]) /\ AllDigits(parts[2])
                         /\ Len(parts[1]) + Len(parts[2]) > 0
    THEN Rat(DigitsValue(parts[1] \o parts[2]), Pow10(Len(parts[2])))
  ELSE NaN

\* an unsigned decimal literal: digits, digits. , .digits or digits.digits
UnsignedDecimal(s) == IF s = "Infinity" THEN Infinity ELSE DecimalParts(Split(s, "."))

Negate(x) == [n |-> -x.n, d |-> x.d]

\* a trimmed numeric string: empty, or an optionally signed literal
SignedDecimal(t) ==
  IF Len(t) = 0 THEN Whole(0)
  ELSE IF CharAt(t, 1) = "-" THEN Negate(UnsignedDecimal(SubSeq(t, 2, Len(t))))
  ELSE IF CharAt(t, 1) = "+" THEN UnsignedDecimal(SubSeq(t, 2, Len(t)))
  ELSE UnsignedDecimal(t)

\* Number(string): StringToNumber for decimal literals (exponents, hex, octal
\* and binary literals are outside the modelled alphabet)
StringToNumber(s) == SignedDecimal(Trim(s))

\* String.prototype.indexOf(needle, from), 1-based; 0 when absent
\* the least element of a set of positions, 0 when it is empty
MinOrZero(hits) == IF hits = {} THEN 0 ELSE CHOOSE i \in hits : \A j \in hits : i <= j

IndexOf(s, needle, from) ==
  MinOrZero({i \in from..(Len(s) - Len(needle) + 1) :
               SubSeq(s, i, i + Len(needle) - 1) = needle})

Contains(s, needle) == IndexOf(s, needle, 1) > 0

UpperOf(c) ==
  CASE c = "a" -> "A" [] c = "b" -> "B" [] c = "c" -> "C" [] c = "d" -> "D" [] c = "e" -> "E"
    [] c = "f" -> "F" [] c = "g" -> "G" [] c = "h" -> "H" [] c = "i" -> "I" [] c = "j" -> "J"
    [] c = "k" -> "K" [] c = "l" -> "L" [] c = "m" -> "M" [] c = "n" -> "N" [] c = "o" -> "O"
    [] c = "p" -> "P" [] c = "q" -> "Q" [] c = "r" -> "R" [] c = "s" -> "S" [] c = "t" -> "T"
    [] c = "u" -> "U" [] c = "v" -> "V" [] c = "w" -> "W" [] c = "x" -> "X" [] c = "y" -> "Y"
    [] c = "z" -> "Z" [] OTHER -> c

\* String.prototype.toUpperCase (ASCII letters)
RECURSIVE ToUpperCase(_)
ToUpperCase(s) ==
  IF Len(s) = 0 THEN s
  ELSE IF Len(s) = 1 THEN UpperOf(s)
  ELSE ToUpperCase(SubSeq(s, 1, Len(s) \div 2)) \o ToUpperCase(SubSeq(s, Len(s) \div 2 + 1, Len(s)))

\* Array.prototype.join
RECURSIVE Join(_, _)
Join(parts, sep) ==
  IF Len(parts) = 0 THEN ""
  ELSE IF Len(parts) = 1 THEN parts[1]
  ELSE parts[1] \o sep \o Join(Tail(parts), sep)

\* Array.prototype.filter(Boolean) on an array of strings: empty strings dropped
RECURSIVE FilterNonEmpty(_)
FilterNonEmpty(lines) ==
  IF Len(lines) = 0 THEN <<>>
  ELSE IF Head(lines) = "" THEN FilterNonEmpty(Tail(lines))
  ELSE <<Head(lines)>> \o FilterNonEmpty(Tail(lines))

\* lines.map((line) => line.trim())
TrimEach(lines) == [i \in 1..Len(lines) |-> Trim(lines[i])]

\* text.trim().split('\n').map((line) => line.trim()).filter(Boolean)
NonBlankLines(text) == FilterNonEmpty(TrimEach(Split(Trim(text), "\n")))

(***************************************************************************)
(* JavaScript values, results of calls that may throw                      *)
(***************************************************************************)
Undefined == [t |-> "undefined"]

JNull == [t |-> "null"]

JNum(x) == [t |-> "number", v |-> x]

JStr(s) == [t |-> "string", s |-> s]

JObj(f) == [t |-> "object", f |-> f]

JArr(a) == [t |-> "array", a |-> a]

IsNullish(x) == x.t \in {"undefined", "null"}

\* x.name on a value that is not null or undefined
Get(x, name) ==
  IF x.t = "object" /\ name \in DOMAIN x.f THEN x.f[name] ELSE Undefined

\* x?.name
OptGet(x, name) == IF IsNullish(x) THEN Undefined ELSE Get(x, name)

\* Number(value)
ToNumber(x) ==
  CASE x.t = "number" -> x.v
    [] x.t = "string" -> StringToNumber(x.s)
    [] x.t = "null" -> Whole(0)
    [] x.t = "undefined" -> NaN
    [] x.t = "array" -> IF Len(x.a) = 0 THEN Whole(0) ELSE NaN
    [] OTHER -> NaN

Ok(v) == [ok |-> TRUE, val |-> v]

Throw(message) == [ok |-> FALSE, msg |-> message]

\* the message of the TypeError raised by reading a property of null/undefined
TypeErrorMessage(x, name) ==
  "Cannot read properties of " \o x.t \o " (reading '" \o name \o "')"

(***************************************************************************)
(* Bounded fetcher.  What the network does with one outbound call is an    *)
(* outcome record:                                                         *)
(*   [kind |-> "network"]   the connection fails, fetch rejects            *)
(*   [kind |-> "abort"]     the 5 s timer aborts the call (before the      *)
(*                          headers or while the body is read)             *)
(*   [kind |-> "response", status |-> s, valid |-> b, data |-> v]          *)
(*     a response with HTTP status s whose body is the text v.s (fetchText)*)
(*     or parses as JSON to the value v when valid (fetchJson)             *)
(***************************************************************************)
FIVE_SECONDS == 5000

NetworkError == [kind |-> "network"]

Aborted == [kind |-> "abort"]

Response(status, valid, data) ==
  [kind |-> "response", status |-> status, valid |-> valid, data |-> data]

JsonBody(v) == Response(200, TRUE, v)

TextBody(s) == Response(200, TRUE, JStr(s))

\* response.ok
ResponseOk(o) == o.status >= 200 /\ o.status <= 299

fetchJson(o) ==
  IF o.kind = "network" THEN Throw("fetch failed")
  ELSE IF o.kind = "abort" THEN Throw("This operation was aborted")
  ELSE IF ~ResponseOk(o) THEN Throw("HTTP " \o ToString(o.status))
  ELSE IF ~o.valid THEN Throw("Unexpected end of JSON input")
  ELSE Ok(o.data)

fetchText(o) ==
  IF o.kind = "network" THEN Throw("fetch failed")
  ELSE IF o.kind = "abort" THEN Throw("This operation was aborted")
  ELSE IF ~ResponseOk(o) THEN Throw("HTTP " \o ToString(o.status))
  ELSE Ok(o.data)

\* One invocation of fetchJson / fetchText, followed from the call to its
\* return or throw: fn the function, pc where it is ("fetch": awaiting fetch,
\* "body": awaiting response.json() / response.text(), "settled"), elapsed the
\* milliseconds since the call, timer the setTimeout timer, aborted
\* controller.signal.aborted, requests the fetch() calls made, status the
\* status of the response (0 before it), bodyReads the calls of json() / text(),
\* result what the invocation returned or threw, settles how many times it did.
NoResult == [ok |-> FALSE, msg |-> ""]

IdleCall ==
  [fn |-> "", pc |-> "idle", elapsed |-> 0, timer |-> "none", aborted |-> FALSE,
   requests |-> 0, status |-> 0, bodyReads |-> 0, result |-> NoResult, settles |-> 0]

\* const controller = new AbortController(); const timeout = setTimeout(...);
\* and the call of fetch(url, { signal })
Invoked(fn) ==
  [fn |-> fn, pc |-> "fetch", elapsed |-> 0, timer |-> "armed", aborted |-> FALSE,
   requests |-> 1, status |-> 0, bodyReads |-> 0, result |-> NoResult, settles |-> 0]

\* a faulty variant of clearTimeout: the timer is left as it is
clearTimeoutSkipped(timer) == timer

\* clearTimeout(timeout): a timer that has not fired never will
clearTimeout(timer) == IF timer = "armed" THEN "cleared" ELSE timer

\* what the function makes of the outcome o of its call
Fetched(fn, o) == IF fn = "fetchJson" THEN fetchJson(o) ELSE fetchText(o)

\* the try block returns or throws and the finally block runs
Settled(fc, o) ==
  [fc EXCEPT !.pc = "settled", !.result = Fetched(fc.fn, o), !.settles = fc.settles + 1,
             !.timer = clearTimeout(fc.timer)]

\* a faulty variant of ResponseReceived: the body is read whatever the status
ResponseReceivedReadsBody(fc, status) ==
  [fc EXCEPT !.status = status, !.pc = "body", !.bodyReads = fc.bodyReads + 1]

\* fetch has resolved with a response of this status: if (!response.ok) throw
\* new Error(`HTTP ${response.status}`), otherwise response.json() / text()
ResponseReceived(fc, status) ==
  IF ResponseOk([status |-> status])
    THEN [fc EXCEPT !.status = status, !.pc = "body", !.bodyReads = fc.bodyReads + 1]
    ELSE Settled([fc EXCEPT !.status = status], Response(status, TRUE, JStr("")))

\* the timer callback: controller.abort() rejects what the invocation awaits
TimerFired(fc) ==
  IF fc.pc \in {"fetch", "body"}
    THEN Settled([fc EXCEPT !.timer = "fired", !.aborted = TRUE], Aborted)
    ELSE [fc EXCEPT !.timer = "fired", !.aborted = TRUE]

(***************************************************************************)
(* Value normalizer                                                        *)
(***************************************************************************)
\* An ISO instant string, as Date.prototype.toISOString gives it, is
\* identified by its instant in seconds since the epoch; the instant of
\* "new Date()" is the distinguished value NowIso.
Iso(sec) == [t |-> "string", iso |-> sec]

NowIso == [t |-> "string", now |-> TRUE]

\* Date.parse on the date strings the modelled providers send (seconds since
\* the epoch); any other string is an invalid date
DateParse(s) ==
  CASE s = "2024-01-15" -> Whole(1705276800)
    [] s = "2024-01-15T12:30:00" -> Whole(1705321800)
    [] s = "2024-01-15T12:30:00.000Z" -> Whole(1705321800)
    [] s = "Mon, 15 Jan 2024 00:02:31 +0000" -> Whole(1705276951)
    [] OTHER -> NaN

\* A number beyond the range of the machine integers of the model is kept as
\* its thousandth with the mark `kilo`: Kilo(x) is the number 1000 * x.
Kilo(x) == [n |-> x.n, d |-> x.d, kilo |-> TRUE]

IsKilo(x) == "kilo" \in DOMAIN x

\* a faulty variant of ExceedsMillisThreshold: 10^12 itself is taken as
\* milliseconds
ExceedsMillisThresholdInclusive(x) ==
  IsKilo(x) /\ x.n \div x.d >= 1000000000

\* value > 1_000_000_000_000: 1000 * x > 10^12 for a number kept as Kilo(x),
\* never for a number within the machine integers
ExceedsMillisThreshold(x) ==
  /\ IsKilo(x)
  /\ \/ x.n \div x.d > 1000000000
     \/ (x.n \div x.d = 1000000000 /\ x.n % x.d > 0)

\* value / 1000
Thousandth(x) == IF IsKilo(x) THEN [n |-> x.n, d |-> x.d] ELSE NumDiv(x, Whole(1000))

\* Number.isNaN(date.getTime()) ? null : date.toISOString()
IsoOrNull(date) == IF IsNaN(date) THEN JNull ELSE Iso(date)

\* The instant is kept in seconds: a value taken as milliseconds is divided by
\* 1000 where the code multiplies a value taken as seconds by 1000.  Every
\* instant the model can hold is within the range of Date.
toIsoTimestamp(value) ==
  IF value.t = "number" /\ IsFinite(value.v)
    THEN IsoOrNull(IF ExceedsMillisThreshold(value.v)
                     THEN Thousandth(value.v)
                     ELSE value.v)
  ELSE IF value.t = "string" /\ Trim(value.s) # ""
    THEN IsoOrNull(DateParse(value.s))
  ELSE JNull

\* the first candidate that normalizes, else the current time
RECURSIVE FirstIso(_)
FirstIso(isos) ==
  IF Len(isos) = 0 THEN NowIso
  ELSE IF Head(isos) # JNull THEN Head(isos)
  ELSE FirstIso(Tail(isos))

\* a faulty variant of getProviderUpdatedAt: what the first candidate gives is
\* returned, null included
getProviderUpdatedAtFirstOnly(candidates) ==
  IF Len(candidates) = 0 THEN NowIso ELSE toIsoTimestamp(candidates[1])

getProviderUpdatedAt(candidates) ==
  FirstIso([i \in 1..Len(candidates) |-> toIsoTimestamp(candidates[i])])

\* a faulty variant of NormalizeRaw: a comma is always a thousands separator
NormalizeRawCommaThousands(raw) ==
  IF raw = "" THEN NaN ELSE StringToNumber(RemoveAll(raw, ","))

\* normalizeNumber on the trimmed string raw
NormalizeRaw(raw) ==
  IF raw = "" THEN NaN
  ELSE IF Includes(raw, ",") /\ Includes(raw, ".") THEN StringToNumber(RemoveAll(raw, ","))
  ELSE IF Includes(raw, ",") THEN StringToNumber(ReplaceFirst(raw, ",", "."))
  ELSE StringToNumber(raw)

normalizeNumber(value) ==
  IF value.t = "number" THEN value.v
  ELSE IF value.t # "string" THEN NaN
  ELSE NormalizeRaw(Trim(value.s))

(***************************************************************************)
(* Provider parsers                                                        *)
(***************************************************************************)
\* the position after a greedy \s* that starts at i
RECURSIVE SkipWhitespace(_, _)
SkipWhitespace(s, i) ==
  IF i <= Len(s) /\ CharAt(s, i) \in Whitespace THEN SkipWhitespace(s, i + 1) ELSE i

StartsWithAt(s, needle, i) ==
  i + Len(needle) - 1 <= Len(s) /\ SubSeq(s, i, i + Len(needle) - 1) = needle

\* the position after \s*USD\s*<\/CURRENCYCODE> when USD starts at a, else 0
UsdCodeTail(u, a) ==
  IF StartsWithAt(u, "USD", a)
       /\ StartsWithAt(u, "</CURRENCYCODE>", SkipWhitespace(u, a + 3))
    THEN SkipWhitespace(u, a + 3) + 15
    ELSE 0

\* the position after <CURRENCYCODE>\s*USD\s*<\/CURRENCYCODE> matched at q in the
\* upper-cased text u, 0 when it does not match there
UsdCodeEnd(u, q) ==
  IF StartsWithAt(u, "<CURRENCYCODE>", q) THEN UsdCodeTail(u, SkipWhitespace(u, q + 14)) ELSE 0

\* the first position q >= from where the USD currency code matches, 0 if none
FindUsdCode(u, from) == MinOrZero({q \in from..Len(u) : UsdCodeEnd(u, q) > 0})

\* the match, given the position p of the leftmost <CURRENCY>, the position q
\* of the first USD currency code after it and the position r of the first
\* </CURRENCY> after that code (0: absent)
UsdBlockGroup(xml, p, r) ==
  IF r = 0 THEN Undefined ELSE JStr(SubSeq(xml, p + 10, r - 1))

UsdBlockClose(xml, u, p, q) ==
  UsdBlockGroup(xml, p, IF q = 0 THEN 0 ELSE IndexOf(u, "</CURRENCY>", UsdCodeEnd(u, q)))

UsdBlockOpen(xml, u, p) ==
  UsdBlockClose(xml, u, p, IF p = 0 THEN 0 ELSE FindUsdCode(u, p + 10))

UsdBlockUpper(xml, u) == UsdBlockOpen(xml, u, IndexOf(u, "<CURRENCY>", 1))

\* xml.match(/<CURRENCY>([\s\S]*?<CURRENCYCODE>\s*USD\s*<\/CURRENCYCODE>[\s\S]*?)<\/CURRENCY>/i)
\* : group 1 as a string value, Undefined when there is no match.  The match
\* starts at the leftmost <CURRENCY> and both [\s\S]*? are lazy.
UsdBlockMatch(xml) == UsdBlockUpper(xml, ToUpperCase(xml))

\* the content s[c .. b-1] of an element without its leading whitespace; the
\* greedy \s* gives back one character when the content is all whitespace
ElementText(s, c, b, w) == JStr(SubSeq(s, IF w < b THEN w ELSE b - 1, b - 1))

\* group 1 of s.match(/<TAG>\s*([^<]+)\s*<\/TAG>/i) searched from position from:
\* the text of the first <TAG> element whose content is not empty and holds no
\* '<'; u is s in upper case, a the position of the next <TAG>, b of the next '<'
RECURSIVE TagTextFrom(_, _, _, _)
TagTextAt(s, u, tag, a, b) ==
  IF b > a + Len(tag) + 2 /\ StartsWithAt(u, "</" \o tag \o ">", b)
    THEN ElementText(s, a + Len(tag) + 2, b, SkipWhitespace(s, a + Len(tag) + 2))
    ELSE TagTextFrom(s, u, tag, a + 1)

TagTextOpen(s, u, tag, a) ==
  IF a = 0 THEN Undefined ELSE TagTextAt(s, u, tag, a, IndexOf(u, "<", a + Len(tag) + 2))

TagTextFrom(s, u, tag, from) == TagTextOpen(s, u, tag, IndexOf(u, "<" \o tag \o ">", from))

TagText(s, tag) == TagTextFrom(s, ToUpperCase(s), tag, 1)

\* the statements of parseBoiRepresentativeUsdIls after the rate is normalized
BoiXmlRate(xml, rate) ==
  IF ~IsFinite(rate)
    THEN Throw("USD representative rate missing in Bank of Israel XML")
    ELSE Ok([rate |-> rate, lastUpdate |-> TagText(xml, "LAST_UPDATE")])

\* the statements of parseBoiRepresentativeUsdIls after the block is matched
BoiXmlBlock(xml, usdBlockMatch) ==
  IF usdBlockMatch = Undefined
    THEN Throw("USD currency block missing in Bank of Israel XML")
    ELSE BoiXmlRate(xml, normalizeNumber(TagText(usdBlockMatch.s, "RATE")))

parseBoiRepresentativeUsdIls(xml) ==
  IF xml.t # "string" \/ Trim(xml.s) = "" THEN Throw("empty Bank of Israel XML")
  ELSE BoiXmlBlock(xml.s, UsdBlockMatch(xml.s))

\* the body of the for loop of parseCsvLine at position i on character char
RECURSIVE CsvScan(_, _, _, _, _)
CsvChar(line, i, char, current, inQuotes, result) ==
  IF char = "\""
    THEN IF inQuotes /\ i + 1 <= Len(line) /\ CharAt(line, i + 1) = "\""
           THEN CsvScan(line, i + 2, current \o "\"", inQuotes, result)
           ELSE CsvScan(line, i + 1, current, ~inQuotes, result)
  ELSE IF char = "," /\ ~inQuotes
    THEN CsvScan(line, i + 1, "", inQuotes, Append(result, Trim(current)))
  ELSE CsvScan(line, i + 1, current \o char, inQuotes, result)

CsvScan(line, i, current, inQuotes, result) ==
  IF i > Len(line) THEN Append(result, Trim(current))
  ELSE CsvChar(line, i, CharAt(line, i), current, inQuotes, result)

parseCsvLine(line) == CsvScan(line, 1, "", FALSE, <<>>)

\* header.findIndex((name) => /(A|B|C)/.test(name)), 1-based; 0 when none matches
FindIndexContaining(header, names) ==
  MinOrZero({i \in 1..Len(header) : \E name \in names : Contains(header[i], name)})

\* the first finite number of a list of numbers, NaN when none is finite
RECURSIVE FirstFinite(_)
FirstFinite(numbers) ==
  IF Len(numbers) = 0 THEN NaN
  ELSE IF IsFinite(Head(numbers)) THEN Head(numbers)
  ELSE FirstFinite(Tail(numbers))

\* for (let i = row.length - 1; i >= 0; i -= 1): normalizeNumber(row[i]) from the
\* last column to the first, the first finite one
LastFiniteNumber(row) ==
  FirstFinite([i \in 1..Len(row) |-> normalizeNumber(JStr(row[Len(row) + 1 - i]))])

\* the statements of parseBoiEdgeRepresentativeUsdIls after the fallback scan
BoiEdgeResult(row, dateIndex, rate) ==
  IF ~IsFinite(rate)
    THEN Throw("USD representative rate missing in BOI edge CSV")
    ELSE Ok([rate |-> rate,
             lastUpdate |-> IF dateIndex >= 1 /\ dateIndex <= Len(row)
                              THEN JStr(row[dateIndex])
                              ELSE JNull])

\* : after the named value column is read (NaN when there is none)
BoiEdgeNamed(row, dateIndex, named) ==
  BoiEdgeResult(row, dateIndex, IF IsFinite(named) THEN named ELSE LastFiniteNumber(row))

\* : after the header indexes are found
BoiEdgeIndexes(row, valueIndex, dateIndex) ==
  BoiEdgeNamed(row, dateIndex,
               IF valueIndex >= 1 /\ valueIndex <= Len(row)
                 THEN normalizeNumber(JStr(row[valueIndex]))
                 ELSE NaN)

\* parseCsvLine(lines[0]).map((value) => value.toUpperCase())
UpperEach(cells) == [i \in 1..Len(cells) |-> ToUpperCase(cells[i])]

\* : after header and row are split
BoiEdgeRow(header, row) ==
  BoiEdgeIndexes(row,
                 FindIndexContaining(header, {"OBS_VALUE", "VALUE", "RATE"}),
                 FindIndexContaining(header, {"TIME_PERIOD", "DATE", "TIME"}))

\* : after the non-blank lines are collected
BoiEdgeLines(lines) ==
  IF Len(lines) < 2 THEN Throw("unexpected BOI edge CSV response")
  ELSE BoiEdgeRow(UpperEach(parseCsvLine(lines[1])), parseCsvLine(lines[Len(lines)]))

parseBoiEdgeRepresentativeUsdIls(csv) ==
  IF csv.t # "string" \/ Trim(csv.s) = "" THEN Throw("empty BOI edge CSV")
  ELSE BoiEdgeLines(NonBlankLines(csv.s))

\* item?.key === 'USD'
IsUsdItem(item) == OptGet(item, "key").t = "string" /\ OptGet(item, "key").s = "USD"

\* rates.find((item) => item?.key === 'USD')
RECURSIVE FindUsd(_)
FindUsd(rates) ==
  IF Len(rates) = 0 THEN Undefined
  ELSE IF IsUsdItem(Head(rates)) THEN Head(rates)
  ELSE FindUsd(Tail(rates))

\* the statements of parseBoiPublicApiRepresentativeUsdIls after usd is found
BoiPublicApiUsd(usd, rate) ==
  IF ~IsFinite(rate)
    THEN Throw("USD representative rate missing in BOI PublicApi response")
    ELSE Ok([rate |-> rate, lastUpdate |-> OptGet(usd, "lastUpdate")])

\* Array.isArray(data?.exchangeRates) ? data.exchangeRates : []
ExchangeRatesOf(exchangeRates) == IF exchangeRates.t = "array" THEN exchangeRates.a ELSE <<>>

BoiPublicApiFound(usd) == BoiPublicApiUsd(usd, normalizeNumber(OptGet(usd, "currentExchangeRate")))

parseBoiPublicApiRepresentativeUsdIls(data) ==
  BoiPublicApiFound(FindUsd(ExchangeRatesOf(OptGet(data, "exchangeRates"))))

(***************************************************************************)
(* Providers.  A provider attempt maps the outcome of its outbound call to *)
(* a quote {value, source, fetchedAt} or to a thrown error.                *)
(***************************************************************************)
Quote(value, source, fetchedAt) ==
  [value |-> value, source |-> source, fetchedAt |-> fetchedAt]

\* Number.isFinite(value) on any value
NumberIsFinite(x) == x.t = "number" /\ IsFinite(x.v)

StooqUrl == "https://stooq.com/q/l/?s=xagusd&i=5"

GoldApiUrl == "https://api.gold-api.com/price/XAG"

MetalsLiveUrl == "https://api.metals.live/v1/spot"

\* the statements of the stooq provider after the close column is converted
StooqClose(close) ==
  IF ~IsFinite(close) THEN Throw("stooq close missing")
  ELSE Ok(Quote(close, "stooq.com", NowIso))

\* const values = dataRow.split(','); Number(values[6])
StooqValues(values) ==
  StooqClose(ToNumber(IF Len(values) >= 7 THEN JStr(values[7]) ELSE Undefined))

StooqLines(lines) ==
  IF Len(lines) = 0 THEN Throw("unexpected stooq response")
  ELSE StooqValues(Split(lines[Len(lines)], ","))

StooqCsv(csv) == IF ~csv.ok THEN csv ELSE StooqLines(NonBlankLines(csv.val.s))

stooqProvider(o) == StooqCsv(fetchText(o))

GoldApiData(data) ==
  IF ~data.ok THEN data
  ELSE IF IsNullish(data.val) THEN Throw(TypeErrorMessage(data.val, "price"))
  ELSE IF Get(data.val, "price").t # "number" THEN Throw("price not found")
  ELSE Ok(Quote(Get(data.val, "price").v, "gold-api.com", NowIso))

goldApiProvider(o) == GoldApiData(fetchJson(o))

\* the statements of the metals.live provider after Number(latest.silver)
MetalsLiveValue(value) ==
  IF ~IsFinite(value) THEN Throw("silver value missing")
  ELSE Ok(Quote(value, "metals.live", NowIso))

MetalsLiveLatest(latest) ==
  IF IsNullish(latest) THEN Throw(TypeErrorMessage(latest, "silver"))
  ELSE MetalsLiveValue(ToNumber(Get(latest, "silver")))

MetalsLiveData(data) ==
  IF ~data.ok THEN data
  ELSE IF data.val.t # "array" \/ Len(data.val.a) = 0
    THEN Throw("unexpected metals.live response")
  ELSE MetalsLiveLatest(data.val.a[1])

metalsLiveProvider(o) == MetalsLiveData(fetchJson(o))

publicApiUrls ==
  << "https://www.boi.org.il/PublicApi/GetExchangeRates",
     "https://boi.org.il/PublicApi/GetExchangeRates" >>

boiUrls ==
  << "https://www.boi.org.il/currency.xml?curr=01",
     "https://www.boi.org.il/currency.xml",
     "https://boi.org.il/currency.xml?curr=01",
     "https://boi.org.il/currency.xml" >>

edgeUrls ==
  << "https://edge.boi.org.il/FusionEdgeServer/sdmx/v2/data/dataflow/BOI.STATISTICS/EXR/1.0/RER_USD_ILS?lastNObservations=1&format=csv",
     "https://edge.boi.gov.il/FusionEdgeServer/sdmx/v2/data/dataflow/BOI.STATISTICS/EXR/1.0/RER_USD_ILS?lastNObservations=1&format=csv" >>

FrankfurterUrl == "https://api.frankfurter.app/latest?from=USD&to=ILS"

OpenErApiUrl == "https://open.er-api.com/v6/latest/USD"

ExchangerateHostUrl == "https://api.exchangerate.host/live?source=USD&currencies=ILS"

\* return { value: rate, source, fetchedAt: getProviderUpdatedAt(lastUpdate) }
\* once the parser has returned; its error when it has thrown
BoiQuote(parsed, source) ==
  IF ~parsed.ok THEN parsed
  ELSE Ok(Quote(parsed.val.rate, source, getProviderUpdatedAt(<<parsed.val.lastUpdate>>)))

BoiPublicApiData(data) ==
  IF ~data.ok THEN data
  ELSE BoiQuote(parseBoiPublicApiRepresentativeUsdIls(data.val),
                "Bank of Israel Public API (representative)")

\* the try block of one mirror URL of a Bank of Israel provider
boiPublicApiAttempt(o) == BoiPublicApiData(fetchJson(o))

BoiXmlText(xml) ==
  IF ~xml.ok THEN xml
  ELSE BoiQuote(parseBoiRepresentativeUsdIls(xml.val), "Bank of Israel XML (representative)")

boiXmlAttempt(o) == BoiXmlText(fetchText(o))

BoiEdgeCsv(csv) ==
  IF ~csv.ok THEN csv
  ELSE BoiQuote(parseBoiEdgeRepresentativeUsdIls(csv.val),
                "Bank of Israel edge API (representative)")

boiEdgeAttempt(o) == BoiEdgeCsv(fetchText(o))

\* if (!Number.isFinite(rate)) throw new Error(missing); return { value: rate, ... }
RateQuote(rate, missing, source, candidates) ==
  IF ~NumberIsFinite(rate) THEN Throw(missing)
  ELSE Ok(Quote(rate.v, source, getProviderUpdatedAt(candidates)))

FrankfurterData(data) ==
  IF ~data.ok THEN data
  ELSE RateQuote(OptGet(OptGet(data.val, "rates"), "ILS"), "ILS rate missing",
                 "frankfurter.app", <<OptGet(data.val, "date")>>)

frankfurterProvider(o) == FrankfurterData(fetchJson(o))

OpenErApiData(data) ==
  IF ~data.ok THEN data
  ELSE RateQuote(OptGet(OptGet(data.val, "rates"), "ILS"), "ILS rate missing",
                 "open.er-api.com",
                 <<OptGet(data.val, "time_last_update_unix"),
                   OptGet(data.val, "time_last_update_utc")>>)

openErApiProvider(o) == OpenErApiData(fetchJson(o))

ExchangerateHostData(data) ==
  IF ~data.ok THEN data
  ELSE RateQuote(OptGet(OptGet(data.val, "quotes"), "USDILS"), "USDILS quote missing",
                 "exchangerate.host", <<OptGet(data.val, "timestamp")>>)

exchangerateHostProvider(o) == ExchangerateHostData(fetchJson(o))

\* README, Data Sources: the sources of the silver price
ReadmeSilverSources == {"gold-api.com", "metals.live", "stooq.com"}

\* README, Data Sources: the sources of the USD/ILS rate
ReadmeUsdIlsSources ==
  { "Bank of Israel Public API (representative)", "Bank of Israel XML (representative)",
    "Bank of Israel edge API (representative)", "frankfurter.app", "open.er-api.com",
    "exchangerate.host" }

\* README, Data Sources: the sources of each chain in the order of the list
ReadmeOrder(c) ==
  IF c = "silver"
    THEN <<"gold-api.com", "metals.live", "stooq.com">>
    ELSE << "Bank of Israel Public API (representative)",
            "Bank of Israel XML (representative)",
            "Bank of Israel edge API (representative)", "frankfurter.app",
            "open.er-api.com", "exchangerate.host" >>

(***************************************************************************)
(* Provider chains.  A chain is the activation of getSilverUsdPerOunce or  *)
(* getUsdIlsRate: `pi` is the provider the for loop is at, `mi` the mirror *)
(* URL the provider's inner loop is at, `errors` and `urlErrors` the two   *)
(* arrays of collected messages, `value` / `error` what the call returned  *)
(* or threw.                                                               *)
(***************************************************************************)
Chains == {"silver", "usdIls"}

\* the providers array of each chain, in the order of the array literal:
\* the URLs a provider calls, whether it loops over them collecting
\* "url: message" entries, and the prefix of the error it then throws
SilverProviders ==
  << [urls |-> <<StooqUrl>>, mirrored |-> FALSE, failed |-> ""],
     [urls |-> <<GoldApiUrl>>, mirrored |-> FALSE, failed |-> ""],
     [urls |-> <<MetalsLiveUrl>>, mirrored |-> FALSE, failed |-> ""] >>

UsdIlsProviders ==
  << [urls |-> publicApiUrls, mirrored |-> TRUE,
      failed |-> "Bank of Israel Public API provider failed. "],
     [urls |-> boiUrls, mirrored |-> TRUE,
      failed |-> "Bank of Israel XML provider failed. "],
     [urls |-> edgeUrls, mirrored |-> TRUE,
      failed |-> "Bank of Israel edge provider failed. "],
     [urls |-> <<FrankfurterUrl>>, mirrored |-> FALSE, failed |-> ""],
     [urls |-> <<OpenErApiUrl>>, mirrored |-> FALSE, failed |-> ""],
     [urls |-> <<ExchangerateHostUrl>>, mirrored |-> FALSE, failed |-> ""] >>

Providers(c) == IF c = "silver" THEN SilverProviders ELSE UsdIlsProviders

ChainLabel(c) ==
  IF c = "silver" THEN "Failed to fetch silver price. " ELSE "Failed to fetch USD/ILS rate. "

\* what provider pi of chain c makes of the outcome o of its outbound call
Attempt(c, pi, o) ==
  IF c = "silver"
    THEN CASE pi = 1 -> stooqProvider(o)
           [] pi = 2 -> goldApiProvider(o)
           [] pi = 3 -> metalsLiveProvider(o)
    ELSE CASE pi = 1 -> boiPublicApiAttempt(o)
           [] pi = 2 -> boiXmlAttempt(o)
           [] pi = 3 -> boiEdgeAttempt(o)
           [] pi = 4 -> frankfurterProvider(o)
           [] pi = 5 -> openErApiProvider(o)
           [] pi = 6 -> exchangerateHostProvider(o)

NoQuote == [source |-> ""]

IdleChain ==
  [status |-> "idle", pi |-> 0, mi |-> 0, errors |-> <<>>, urlErrors |-> <<>>,
   value |-> NoQuote, error |-> ""]

\* the call of the chain function up to its first await: the first provider is
\* invoked and issues its first outbound call
StartedChain ==
  [status |-> "running", pi |-> 1, mi |-> 1, errors |-> <<>>, urlErrors |-> <<>>,
   value |-> NoQuote, error |-> ""]

\* the URL of the outbound call a running chain is awaiting
CurrentUrl(c, st) == Providers(c)[st.pi].urls[st.mi]

\* a faulty variant of ProviderFailed: the thrown message keeps only the
\* failure of the last provider
ProviderFailedLastOnly(c, st, errors) ==
  IF st.pi < Len(Providers(c))
    THEN [st EXCEPT !.errors = errors, !.pi = st.pi + 1, !.mi = 1, !.urlErrors = <<>>]
    ELSE [st EXCEPT !.errors = errors, !.status = "rejected",
                    !.error = ChainLabel(c) \o errors[Len(errors)]]

\* a faulty variant of ProviderFailed: the provider that failed first is
\* invoked a second time before the loop moves on
ProviderFailedRetried(c, st, errors) ==
  IF Len(errors) = 1
    THEN [st EXCEPT !.errors = errors, !.mi = 1, !.urlErrors = <<>>]
  ELSE IF st.pi < Len(Providers(c))
    THEN [st EXCEPT !.errors = errors, !.pi = st.pi + 1, !.mi = 1, !.urlErrors = <<>>]
    ELSE [st EXCEPT !.errors = errors, !.status = "rejected",
                    !.error = ChainLabel(c) \o Join(errors, " | ")]

\* catch (error) { errors.push(message) } and the next iteration, or the
\* throw after the loop; errors is the array after the push
ProviderFailed(c, st, errors) ==
  IF st.pi < Len(Providers(c))
    THEN [st EXCEPT !.errors = errors, !.pi = st.pi + 1, !.mi = 1, !.urlErrors = <<>>]
    ELSE [st EXCEPT !.errors = errors, !.status = "rejected",
                    !.error = ChainLabel(c) \o Join(errors, " | ")]

\* a faulty variant of ProviderLoop: a quote is kept but the loop goes on to
\* the remaining providers instead of returning
ProviderLoopKeepsGoing(c, st, res) ==
  IF res.ok /\ st.pi < Len(Providers(c))
    THEN [st EXCEPT !.value = res.val, !.pi = st.pi + 1, !.mi = 1, !.urlErrors = <<>>]
  ELSE IF res.ok
    THEN [st EXCEPT !.status = "fulfilled", !.value = res.val]
    ELSE ProviderFailed(c, st, Append(st.errors, res.msg))

\* a faulty variant of ProviderLoop: the returned quote carries the value of
\* the provider that succeeded under the label of the first provider of the chain
ProviderLoopFirstLabel(c, st, res) ==
  IF res.ok
    THEN [st EXCEPT !.status = "fulfilled",
                    !.value = [res.val EXCEPT !.source =
                                 IF c = "silver" THEN "stooq.com"
                                 ELSE "Bank of Israel Public API (representative)"]]
    ELSE ProviderFailed(c, st, Append(st.errors, res.msg))

\* a faulty variant of ProviderLoop: the failure of a provider is not caught
\* and leaves the chain function at once
ProviderLoopNoCatch(c, st, res) ==
  IF res.ok
    THEN [st EXCEPT !.status = "fulfilled", !.value = res.val]
    ELSE [st EXCEPT !.status = "rejected", !.error = res.msg]

\* for (const provider of providers) { try { return await provider() }
\*   catch (error) { errors.push(message) } }  throw new Error(label + errors.join(' | '))
\* resumed with the result `res` of the awaited provider
ProviderLoop(c, st, res) ==
  IF res.ok
    THEN [st EXCEPT !.status = "fulfilled", !.value = res.val]
    ELSE ProviderFailed(c, st, Append(st.errors, res.msg))

\* catch (error) { urlErrors.push(`${url}: ${message}`) } and the next
\* iteration, or the throw after the loop; urlErrors is the array after the push
MirrorFailed(provider, st, res, urlErrors) ==
  IF st.mi < Len(provider.urls)
    THEN [settled |-> FALSE, res |-> res,
          st |-> [st EXCEPT !.urlErrors = urlErrors, !.mi = st.mi + 1]]
    ELSE [settled |-> TRUE,
          res |-> Throw(provider.failed \o Join(urlErrors, " | ")),
          st |-> [st EXCEPT !.urlErrors = urlErrors]]

\* a faulty variant of MirrorLoop: the provider gives up at the first URL
\* that fails instead of trying its next mirror
MirrorLoopGivesUp(c, st, res) ==
  IF res.ok \/ ~Providers(c)[st.pi].mirrored
    THEN [settled |-> TRUE, res |-> res, st |-> st]
    ELSE [settled |-> TRUE,
          res |-> Throw(Providers(c)[st.pi].failed \o CurrentUrl(c, st) \o ": " \o res.msg),
          st |-> st]

\* for (const url of urls) { try { ...; return quote }
\*   catch (error) { urlErrors.push(`${url}: ${message}`) } }
\*   throw new Error(failed + urlErrors.join(' | '))
\* resumed with the result `res` of the try block of the current URL; a provider
\* without mirror URLs returns or throws what its body does
\* : whether the provider has settled, with what, and the chain's locals
MirrorLoop(c, st, res) ==
  IF res.ok \/ ~Providers(c)[st.pi].mirrored
    THEN [settled |-> TRUE, res |-> res, st |-> st]
    ELSE MirrorFailed(Providers(c)[st.pi], st, res,
                      Append(st.urlErrors, CurrentUrl(c, st) \o ": " \o res.msg))

\* the chain loop resumed once the inner loop of the provider has run
AfterProvider(c, m) == IF m.settled THEN ProviderLoop(c, m.st, m.res) ELSE m.st

\* the chain function resumed when the try block around its outbound call
\* has returned or thrown `res`
Resume(c, st, res) == AfterProvider(c, MirrorLoop(c, st, res))

getSilverUsdPerOunce(st, res) == Resume("silver", st, res)

getUsdIlsRate(st, res) == Resume("usdIls", st, res)

(***************************************************************************)
(* Request handler of GET /api/half-shekel                                 *)
(***************************************************************************)
SILVER_GRAMS == 9

GRAMS_PER_TROY_OUNCE == StringToNumber("31.1034768")

HALF_SHEKEL_TROY_OUNCES == NumDiv(Whole(SILVER_GRAMS), GRAMS_PER_TROY_OUNCE)

VAT_RATE == StringToNumber("0.18")

JBool(b) == [t |-> "boolean", b |-> b]

\* JSON.stringify as the client reads it back: a non-finite number becomes
\* null, an undefined property is dropped
RECURSIVE JsonStringify(_)
JsonStringify(x) ==
  CASE x.t = "number" -> IF IsFinite(x.v) THEN x ELSE JNull
    [] x.t = "object" ->
         JObj([k \in {k \in DOMAIN x.f : x.f[k].t # "undefined"} |-> JsonStringify(x.f[k])])
    [] x.t = "array" -> JArr([i \in 1..Len(x.a) |-> JsonStringify(x.a[i])])
    [] OTHER -> x

\* json(res, status, data)
json(status, data) == [status |-> status, body |-> JsonStringify(data)]

NoResponse == [status |-> 0]

\* json(res, 200, {...}) with the three computed results
SuccessBody(silver, usdIls, halfShekelUsd, halfShekelIlsNoVat, halfShekelIlsWithVat) ==
     json(200, JObj([
       success |-> JBool(TRUE),
       updatedAt |-> NowIso,
       constants |-> JObj([silverGrams |-> JNum(Whole(SILVER_GRAMS)),
                           gramsPerTroyOunce |-> JNum(GRAMS_PER_TROY_OUNCE),
                           troyOunces |-> JNum(HALF_SHEKEL_TROY_OUNCES),
                           vatRate |-> JNum(VAT_RATE)]),
       market |-> JObj([silverUsdPerOunce |-> JNum(silver.value),
                        usdIls |-> JNum(usdIls.value),
                        updatedAt |-> JObj([silver |-> silver.fetchedAt,
                                            usdIls |-> usdIls.fetchedAt]),
                        sources |-> JObj([silver |-> JStr(silver.source),
                                          usdIls |-> JStr(usdIls.source)])]),
       result |-> JObj([halfShekelUsd |-> JNum(halfShekelUsd),
                        halfShekelIlsNoVat |-> JNum(halfShekelIlsNoVat),
                        halfShekelIlsWithVat |-> JNum(halfShekelIlsWithVat)])]))

\* a faulty variant of WithVat: the price is multiplied by the VAT rate alone
WithVatOnly(silver, usdIls, halfShekelUsd, halfShekelIlsNoVat) ==
  SuccessBody(silver, usdIls, halfShekelUsd, halfShekelIlsNoVat,
              NumMul(halfShekelIlsNoVat, VAT_RATE))

WithVat(silver, usdIls, halfShekelUsd, halfShekelIlsNoVat) ==
  SuccessBody(silver, usdIls, halfShekelUsd, halfShekelIlsNoVat,
              NumMul(halfShekelIlsNoVat, NumAdd(Whole(1), VAT_RATE)))

NoVat(silver, usdIls, halfShekelUsd) ==
  WithVat(silver, usdIls, halfShekelUsd, NumMul(halfShekelUsd, usdIls.value))

\* the statements after the await of Promise.all, with both quotes
SuccessResponse(silver, usdIls) ==
  NoVat(silver, usdIls, NumMul(silver.value, HALF_SHEKEL_TROY_OUNCES))

\* the catch block of the request handler
FailureResponse(message) ==
  json(500, JObj([
    success |-> JBool(FALSE),
    error |-> JStr("Unable to load market data right now. Please try again in a minute."),
    details |-> JStr(message)]))

\* a faulty variant of AwaitPromiseAll: the success response is computed from a
\* silver quote kept from an earlier request instead of the one just returned
AwaitPromiseAllCached(c, chs) ==
  IF chs[c].status = "rejected" THEN FailureResponse(chs[c].error)
  ELSE IF \A d \in Chains : chs[d].status = "fulfilled"
    THEN SuccessResponse(Quote(StringToNumber("31.5"), "stooq.com", NowIso),
                         chs["usdIls"].value)
  ELSE NoResponse

\* await Promise.all([getSilverUsdPerOunce(), getUsdIlsRate()]) when chain c has
\* just settled and the promise was still pending: it rejects with the error of
\* the first chain that rejects and fulfils once both chains have fulfilled
AwaitPromiseAll(c, chs) ==
  IF chs[c].status = "rejected" THEN FailureResponse(chs[c].error)
  ELSE IF \A d \in Chains : chs[d].status = "fulfilled"
    THEN SuccessResponse(chs["silver"].value, chs["usdIls"].value)
  ELSE NoResponse

(***************************************************************************)
(* What the network may answer to each outbound call: for every provider   *)
(* the failures of the call itself, bodies of an unexpected shape and      *)
(* well-formed bodies, among them bodies whose number is zero, negative,   *)
(* empty or overflowing.  The later mirror URLs of a Bank of Israel        *)
(* provider are given one kind of failure each besides the good bodies.    *)
(***************************************************************************)
HttpError(status) == Response(status, TRUE, JStr(""))

InvalidJson == Response(200, FALSE, JStr("<html>"))

StooqRow(close) == "XAGUSD,2024-01-15,22:00:09,31.1,31.6,31.0," \o close \o ",0"

StooqOutcomes ==
  { NetworkError, Aborted, HttpError(503),
    TextBody(""),
    TextBody("XAGUSD,N/D,N/D,N/D,N/D,N/D,N/D,N/D\r\n"),
    TextBody("Symbol,Date,Time,Open,High,Low,Close,Volume\r\n" \o StooqRow("31.5") \o "\r\n"),
    TextBody(StooqRow("31.1034768")),
    TextBody(StooqRow("")) }

GoldApiOutcomes ==
  { NetworkError, InvalidJson,
    JsonBody(JNull),
    JsonBody(JObj([error |-> JStr("rate limited")])),
    JsonBody(JObj([price |-> JStr("31.5")])),
    JsonBody(JObj([name |-> JStr("Silver"), price |-> JNum(StringToNumber("31.5"))])),
    JsonBody(JObj([price |-> JNum(StringToNumber("31.1034768"))])),
    JsonBody(JObj([price |-> JNum(Whole(0))])),
    JsonBody(JObj([price |-> JNum(Whole(-2))])),
    JsonBody(JObj([price |-> JNum(Infinity)])) }

MetalsLiveOutcomes ==
  { Aborted,
    JsonBody(JObj([silver |-> JNum(StringToNumber("31.5"))])),
    JsonBody(JArr(<<>>)),
    JsonBody(JArr(<<JNull>>)),
    JsonBody(JArr(<<JObj([gold |-> JNum(Whole(2650))])>>)),
    JsonBody(JArr(<<JObj([silver |-> JNum(StringToNumber("31.5"))])>>)),
    JsonBody(JArr(<<JObj([silver |-> JStr("31.1034768")])>>)),
    JsonBody(JArr(<<JObj([silver |-> JNull])>>)) }

BoiRates(usdRate) ==
  JObj([exchangeRates |-> JArr(<<
    JObj([key |-> JStr("EUR"), currentExchangeRate |-> JNum(StringToNumber("4.05")),
          lastUpdate |-> JStr("2024-01-15T12:30:00.000Z")]),
    JObj([key |-> JStr("USD"), currentExchangeRate |-> usdRate,
          lastUpdate |-> JStr("2024-01-15T12:30:00.000Z")]) >>)])

PublicApiBodies ==
  { JsonBody(BoiRates(JNum(StringToNumber("3.7")))),
    JsonBody(BoiRates(JStr("3,65"))),
    JsonBody(BoiRates(JNum(Whole(0)))) }

PublicApiOutcomes(mi) ==
  PublicApiBodies \cup
    (IF mi = 1
       THEN {NetworkError,
             JsonBody(JObj([exchangeRates |-> JArr(<<JObj([key |-> JStr("EUR"),
                                 currentExchangeRate |-> JNum(StringToNumber("4.05"))])>>)]))}
       ELSE {HttpError(503)})

BoiXml(blocks) ==
  "<CURRENCIES><LAST_UPDATE>2024-01-15</LAST_UPDATE>" \o blocks \o "</CURRENCIES>"

XmlBlock(code, rate) ==
  "<CURRENCY><NAME>x</NAME><UNIT>1</UNIT><CURRENCYCODE>" \o code
    \o "</CURRENCYCODE><RATE>" \o rate \o "</RATE></CURRENCY>"

BoiXmlBodies ==
  { TextBody(BoiXml(XmlBlock("USD", "3.7") \o XmlBlock("EUR", "4.05"))),
    TextBody(BoiXml(XmlBlock("EUR", "4.05") \o XmlBlock("USD", "3.7"))),
    TextBody(BoiXml(XmlBlock("USD", "-1"))) }

BoiXmlOutcomes(mi) ==
  BoiXmlBodies \cup
    (CASE mi = 1 -> {Aborted, TextBody(BoiXml(XmlBlock("EUR", "4.05")))}
       [] mi = 2 -> {TextBody(" ")}
       [] mi = 3 -> {HttpError(404)}
       [] OTHER -> {TextBody(BoiXml(XmlBlock("USD", "")))})

EdgeBodies ==
  { TextBody("DATA_TYPE,TIME_PERIOD,OBS_VALUE\nRER_USD_ILS,2024-01-15,3.7\n"),
    TextBody("SERIES,WHEN,AMOUNT\nRER_USD_ILS,2024-01-15,\"3,65\"\n") }

EdgeOutcomes(mi) ==
  EdgeBodies \cup
    (IF mi = 1
       THEN {NetworkError, TextBody("DATA_TYPE,TIME_PERIOD,OBS_VALUE\n")}
       ELSE {TextBody("DATA_TYPE,OBS_VALUE\nRER_USD_ILS,\n")})

FrankfurterOutcomes ==
  { HttpError(500),
    JsonBody(JObj([amount |-> JNum(Whole(1)), rates |-> JObj([EUR |-> JNum(Whole(1))])])),
    JsonBody(JObj([date |-> JStr("2024-01-15"),
                   rates |-> JObj([ILS |-> JNum(StringToNumber("3.7"))])])),
    JsonBody(JObj([date |-> JStr("soon"),
                   rates |-> JObj([ILS |-> JNum(Whole(0))])])) }

OpenErApiOutcomes ==
  { Aborted,
    JsonBody(JNull),
    JsonBody(JObj([time_last_update_unix |-> JNum(Whole(1705276951)),
                   time_last_update_utc |-> JStr("Mon, 15 Jan 2024 00:02:31 +0000"),
                   rates |-> JObj([ILS |-> JNum(StringToNumber("3.7"))])])),
    JsonBody(JObj([time_last_update_utc |-> JStr("Mon, 15 Jan 2024 00:02:31 +0000"),
                   rates |-> JObj([ILS |-> JNum(Whole(-1))])])) }

ExchangerateHostOutcomes ==
  { NetworkError,
    JsonBody(JObj([success |-> JBool(FALSE)])),
    JsonBody(JObj([timestamp |-> JNum(Whole(1705321800)),
                   quotes |-> JObj([USDILS |-> JNum(StringToNumber("3.65"))])])) }

\* the outcomes drawn for the call that provider pi of chain c makes to its
\* mi-th URL
Outcomes(c, pi, mi) ==
  IF c = "silver"
    THEN CASE pi = 1 -> StooqOutcomes
           [] pi = 2 -> GoldApiOutcomes
           [] pi = 3 -> MetalsLiveOutcomes
    ELSE CASE pi = 1 -> PublicApiOutcomes(mi)
           [] pi = 2 -> BoiXmlOutcomes(mi)
           [] pi = 3 -> EdgeOutcomes(mi)
           [] pi = 4 -> FrankfurterOutcomes
           [] pi = 5 -> OpenErApiOutcomes
           [] pi = 6 -> ExchangerateHostOutcomes

\* what the try block around the call of provider pi of chain c to its mi-th
\* URL can return or throw: the provider applied to every outcome of the call
AttemptResults ==
  [c \in Chains |->
    [pi \in DOMAIN Providers(c) |->
      [mi \in DOMAIN Providers(c)[pi].urls |->
        {Attempt(c, pi, o) : o \in Outcomes(c, pi, mi)}]]]

(***************************************************************************)
(* Visit statistics: the counters kept in memory and in                    *)
(* data/visit-stats.json, and the admin token that guards their disclosure.*)
(* A request is a record {method, url, accept, authorization, token}: url  *)
(* is the path of req.url, accept and authorization the two headers        *)
(* (Undefined when absent), token the decoded ?token= value (JNull when    *)
(* absent).  Instants are Iso(n), n counting the recorded events.          *)
(***************************************************************************)
EMPTY_VISIT_STATS ==
  [totalVisits |-> 0, firstVisitAt |-> JNull, lastVisitAt |-> JNull,
   totalDonationClicks |-> 0, firstDonationClickAt |-> JNull,
   lastDonationClickAt |-> JNull, updatedAt |-> JNull]

\* the truth value JavaScript gives to x in a condition
Truthy(x) ==
  CASE x.t \in {"undefined", "null"} -> FALSE
    [] x.t = "string" -> IF "s" \in DOMAIN x THEN x.s # "" ELSE TRUE
    [] x.t = "number" -> ~IsNaN(x.v) /\ x.v.n # 0
    [] x.t = "boolean" -> x.b
    [] OTHER -> TRUE

\* Number.isFinite(n) && n >= 0 ? Math.floor(n) : 0
FloorOrZero(n) == IF IsFinite(n) /\ n.n >= 0 THEN n.n \div n.d ELSE 0

\* typeof value === 'string' ? value : null
StringOrNull(value) == IF value.t = "string" THEN value ELSE JNull

normalizeVisitStats(raw) ==
  IF ~Truthy(raw) \/ raw.t \notin {"object", "array"} THEN EMPTY_VISIT_STATS
  ELSE [totalVisits |-> FloorOrZero(ToNumber(Get(raw, "totalVisits"))),
        firstVisitAt |-> StringOrNull(Get(raw, "firstVisitAt")),
        lastVisitAt |-> StringOrNull(Get(raw, "lastVisitAt")),
        totalDonationClicks |-> FloorOrZero(ToNumber(Get(raw, "totalDonationClicks"))),
        firstDonationClickAt |-> StringOrNull(Get(raw, "firstDonationClickAt")),
        lastDonationClickAt |-> StringOrNull(Get(raw, "lastDonationClickAt")),
        updatedAt |-> StringOrNull(Get(raw, "updatedAt"))]

\* JSON.stringify(visitStats, null, 2) as JSON.parse reads it back
StatsJson(stats) ==
  JObj([totalVisits |-> JNum(Whole(stats.totalVisits)),
        firstVisitAt |-> stats.firstVisitAt,
        lastVisitAt |-> stats.lastVisitAt,
        totalDonationClicks |-> JNum(Whole(stats.totalDonationClicks)),
        firstDonationClickAt |-> stats.firstDonationClickAt,
        lastDonationClickAt |-> stats.lastDonationClickAt,
        updatedAt |-> stats.updatedAt])

\* the content of data/visit-stats.json: no file, text that is not JSON, or
\* the text of a JSON value
NoFile == [kind |-> "ENOENT"]

NotJson == [kind |-> "text"]

JsonFile(value) == [kind |-> "json", value |-> value]

\* the body of the try in loadVisitStats, and its catch: the statistics
\* in memory once the file has been read
LoadedStats(content) ==
  IF content.kind = "json" THEN normalizeVisitStats(content.value) ELSE EMPTY_VISIT_STATS

\* reqUrl.pathname.replace(/\/+$/, '') || '/'
RECURSIVE StripSlashes(_)
StripSlashes(p) ==
  IF Len(p) > 0 /\ CharAt(p, Len(p)) = "/" THEN StripSlashes(SubSeq(p, 1, Len(p) - 1)) ELSE p

Pathname(url) == IF StripSlashes(url) = "" THEN "/" ELSE StripSlashes(url)

shouldTrackVisit(req, pathname) ==
  IF req.method # "GET" THEN FALSE
  ELSE IF pathname # "/" /\ pathname # "/index.html" THEN FALSE
  ELSE IF req.accept.t = "string" /\ ~Contains(req.accept.s, "text/html") THEN FALSE
  ELSE TRUE

\* the statements of trackVisit between its two awaits
VisitCounted(stats, now) ==
  [stats EXCEPT !.totalVisits = @ + 1,
                !.lastVisitAt = now,
                !.updatedAt = now,
                !.firstVisitAt = IF ~Truthy(@) THEN now ELSE @]

\* the statements of trackDonationClick between its two awaits
ClickCounted(stats, now) ==
  [stats EXCEPT !.totalDonationClicks = @ + 1,
                !.lastDonationClickAt = now,
                !.updatedAt = now,
                !.firstDonationClickAt = IF ~Truthy(@) THEN now ELSE @]

secureEquals(a, b) == IF Len(a) # Len(b) THEN FALSE ELSE a = b

\* authorization.match(/^Bearer\s+(.+)$/i): the trimmed group, null
\* without a match
BearerMatch(authorization) ==
  IF /\ Len(authorization) >= 8
     /\ ToUpperCase(SubSeq(authorization, 1, 6)) = "BEARER"
     /\ CharAt(authorization, 7) \in Whitespace
    THEN JStr(Trim(SubSeq(authorization, 7, Len(authorization))))
    ELSE JNull

getBearerToken(req) ==
  IF req.authorization.t # "string" THEN JNull ELSE BearerMatch(req.authorization.s)

getQueryToken(req) ==
  IF req.token.t # "string" THEN JNull
  ELSE IF Trim(req.token.s) = "" THEN JNull
  ELSE JStr(Trim(req.token.s))

\* a || b
OrElse(a, b) == IF Truthy(a) THEN a ELSE b

\* a faulty variant of ProvidedTokenIs: the ?token= value is preferred to the
\* Bearer token
QueryTokenFirstIs(req, adminToken) ==
  IF ~Truthy(OrElse(getQueryToken(req), getBearerToken(req))) THEN FALSE
  ELSE secureEquals(OrElse(getQueryToken(req), getBearerToken(req)).s, adminToken)

\* isAuthorizedForVisitStats from its second statement on
ProvidedTokenIs(req, adminToken) ==
  IF ~Truthy(OrElse(getBearerToken(req), getQueryToken(req))) THEN FALSE
  ELSE secureEquals(OrElse(getBearerToken(req), getQueryToken(req)).s, adminToken)

\* isAuthorizedForVisitStats(req), adminToken being ADMIN_STATS_TOKEN
isAuthorizedForVisitStats(req, adminToken) ==
  IF adminToken = "" THEN FALSE ELSE ProvidedTokenIs(req, adminToken)

(***************************************************************************)
(* State.  One request is followed from its arrival to the moment its last *)
(* chain has settled; the pipeline keeps nothing between requests, so the  *)
(* next request starts from the same state.                                *)
(***************************************************************************)
VARIABLES
  phase,      \* "idle": no request; "pending": the handler awaits Promise.all;
              \* "responded": the response has been sent
  chain,      \* chain[c]: the activation of the chain function c
  inflight,   \* inflight[c]: the URLs of the outbound calls of chain c not yet settled
  started,    \* started[c]: the URLs chain c has called in this request, in call order
  attempts,   \* attempts[c]: what each provider invoked so far returned or threw
  response,   \* the response sent to the client, NoResponse before
  sent,       \* how many responses the handler has written for this request
  served,     \* how many requests the server has finished before this one
  ADMIN_STATS_TOKEN,      \* process.env.ADMIN_STATS_TOKEN || ''
  visitStats,             \* the statistics in memory
  visitStatsLoadPromise,  \* "null", "pending", "fulfilled" or "rejected"
  visitStatsFile,         \* the content of data/visit-stats.json
  tracking,   \* the requests suspended in loadVisitStats or persistVisitStats, in
              \* arrival order: what each does (kind), where it is (pc), what it
              \* writes (data)
  statsRequest,   \* the last request for the statistics, NoRequest before
  statsReply,     \* the response to it, NoResponse while it is awaited
  arrived,    \* how many requests other than /api/half-shekel have arrived
  homeVisits, \* how many of them were GET / or GET /index.html
  loaded,     \* the statistics loadVisitStats read at start-up
  fileReads,  \* how many times loadVisitStats has read the statistics file
  passed,     \* passed[kind]: how many calls of trackVisit ("visit") and of
              \* trackDonationClick ("click") have gone past their loadVisitStats
  answers,    \* the responses sent to tracked requests: what was tracked (kind),
              \* where tracking threw (failed, "" if nowhere), the response (reply)
  fetchCall,  \* the invocation of fetchJson / fetchText that is followed
  fetched,    \* how many invocations have been followed
  argument,   \* a function of the module and the value it is applied to
  returned,   \* what the function returned or threw, NotReturned before
  isLoading,  \* the flag of the page that loadHalfShekel sets while it runs
  retry,      \* the activation of fetchHalfShekelWithRetry in the page
  loads,      \* how many runs of loadHalfShekel have ended
  page,       \* the elements of the page that loadHalfShekel writes: the
              \* disabled flag of the refresh button and five texts
  calls       \* calls.all: how many times loadHalfShekel has been called;
              \* calls.runs: how many of the calls went past the isLoading test

pipelineVars == <<phase, chain, inflight, started, attempts, response, sent, served>>

visitVars ==
  <<ADMIN_STATS_TOKEN, visitStats, visitStatsLoadPromise, visitStatsFile, tracking,
    statsRequest, statsReply, arrived, homeVisits, loaded, fileReads, passed, answers>>

fetchVars == <<fetchCall, fetched>>

pureVars == <<argument, returned>>

pageVars == <<isLoading, retry, loads, page, calls>>

otherThanPipeline == <<visitVars, fetchVars, pureVars, pageVars>>

otherThanVisit == <<pipelineVars, fetchVars, pureVars, pageVars>>

otherThanFetch == <<pipelineVars, visitVars, pureVars, pageVars>>

otherThanPure == <<pipelineVars, visitVars, fetchVars, pageVars>>

otherThanPage == <<pipelineVars, visitVars, fetchVars, pureVars>>

vars == <<pipelineVars, visitVars, fetchVars, pureVars, pageVars>>

NoArgument == [fn |-> ""]

NotReturned == [ok |-> FALSE, msg |-> "", pending |-> TRUE]

NoRequest == [method |-> ""]

\* fetchHalfShekelWithRetry not called: pc where the activation is ("idle",
\* "fetch": awaiting fetch, "text": awaiting response.text(), "sleep":
\* awaiting sleep, "returned", "threw"), attempt and maxAttempts the loop
\* variables, lastError the message of the error caught last, response the
\* response whose body is awaited, made the calls of fetch, outcomes what the
\* network did with each attempt that has ended, waits the milliseconds of
\* each call of sleep, result what the function returned or threw
NotCalled ==
  [pc |-> "idle", attempt |-> 0, maxAttempts |-> 0, lastError |-> "", response |-> JNull,
   made |-> 0, outcomes |-> <<>>, waits |-> <<>>, result |-> NoResult]

\* the number of requests followed one after the other
MaxRequests == 2

\* the text of an element: what is shown (fmt) and the values it is made from
Shown(fmt, value) == [fmt |-> fmt, value |-> value]

\* the page as the server sends it, before the script has run
PageAsServed ==
  [refreshDisabled |-> FALSE,
   cardUpdatedText |-> Shown("served", JNull),
   ilsValueWithVat |-> Shown("served", JNull),
   silverValue |-> Shown("served", JNull),
   silverIlsValue |-> Shown("served", JNull),
   usdIlsValue |-> Shown("served", JNull)]

\* the module-level state after start-up, for the token and the file given,
\* and the page before it has asked for anything
ServerStarted(token, content) ==
  /\ phase = "idle"
  /\ chain = [c \in Chains |-> IdleChain]
  /\ inflight = [c \in Chains |-> {}]
  /\ started = [c \in Chains |-> <<>>]
  /\ attempts = [c \in Chains |-> <<>>]
  /\ response = NoResponse
  /\ sent = 0
  /\ served = 0
  /\ ADMIN_STATS_TOKEN = token
  /\ visitStats = EMPTY_VISIT_STATS
  /\ visitStatsLoadPromise = "null"
  /\ visitStatsFile = content
  /\ tracking = <<>>
  /\ statsRequest = NoRequest
  /\ statsReply = NoResponse
  /\ arrived = 0
  /\ homeVisits = 0
  /\ loaded = EMPTY_VISIT_STATS
  /\ fileReads = 0
  /\ passed = [kind \in {"visit", "click"} |-> 0]
  /\ answers = {}
  /\ fetchCall = IdleCall
  /\ fetched = 0
  /\ isLoading = FALSE
  /\ retry = NotCalled
  /\ loads = 0
  /\ page = PageAsServed
  /\ calls = [all |-> 0, runs |-> 0]

Init == ServerStarted("", NoFile) /\ argument = NoArgument /\ returned = NotReturned

\* GET /api/half-shekel arrives: the handler calls both chain functions, each of
\* which runs to its first outbound call, and then awaits Promise.all
Request ==
  /\ phase = "idle"
  /\ served < MaxRequests
  /\ phase' = "pending"
  /\ chain' = [c \in Chains |-> StartedChain]
  /\ inflight' = [c \in Chains |-> {CurrentUrl(c, StartedChain)}]
  /\ started' = [c \in Chains |-> <<CurrentUrl(c, StartedChain)>>]
  /\ attempts' = [c \in Chains |-> <<>>]
  /\ response' = NoResponse
  /\ sent' = 0
  /\ UNCHANGED served
  /\ UNCHANGED otherThanPipeline

\* a faulty variant of HandlerResumes: the handler without its catch, which
\* answers a fulfilled Promise.all and leaves a rejected one unanswered
HandlerResumesWithoutCatch(answer) ==
  IF answer # NoResponse /\ answer.status = 200
    THEN phase' = "responded" /\ response' = answer /\ sent' = sent + 1
    ELSE UNCHANGED <<phase, response, sent>>

\* the handler after chain c has settled or moved on: it responds if
\* Promise.all, still pending, settles now
HandlerResumes(answer) ==
  IF answer # NoResponse
    THEN phase' = "responded" /\ response' = answer /\ sent' = sent + 1
    ELSE UNCHANGED <<phase, response, sent>>

\* a faulty variant of ChainResumes: the chain goes on at the first sign of
\* its call while the call itself is still running
ChainResumesEarly(c, url, m, next) ==
  /\ chain' = [chain EXCEPT ![c] = next]
  /\ inflight' = [inflight EXCEPT ![c] =
       @ \cup (IF next.status = "running" THEN {CurrentUrl(c, next)} ELSE {})]
  /\ started' = [started EXCEPT ![c] =
       IF next.status = "running" THEN Append(@, CurrentUrl(c, next)) ELSE @]
  /\ attempts' = [attempts EXCEPT ![c] =
       IF m.settled THEN Append(@, [pi |-> chain[c].pi, res |-> m.res]) ELSE @]
  /\ HandlerResumes(IF phase = "pending"
                      THEN AwaitPromiseAll(c, [chain EXCEPT ![c] = next])
                      ELSE NoResponse)
  /\ UNCHANGED served
  /\ UNCHANGED otherThanPipeline

\* a faulty variant of ChainResumes: a call that fails takes the call of the
\* other chain with it
ChainResumesAbortsSibling(c, url, m, next) ==
  /\ chain' = [chain EXCEPT ![c] = next]
  /\ inflight' = [d \in Chains |->
       IF d = c
         THEN (inflight[c] \ {url})
                \cup (IF next.status = "running" THEN {CurrentUrl(c, next)} ELSE {})
       ELSE IF m.res.ok THEN inflight[d] ELSE {}]
  /\ started' = [started EXCEPT ![c] =
       IF next.status = "running" THEN Append(@, CurrentUrl(c, next)) ELSE @]
  /\ attempts' = [attempts EXCEPT ![c] =
       IF m.settled THEN Append(@, [pi |-> chain[c].pi, res |-> m.res]) ELSE @]
  /\ HandlerResumes(IF phase = "pending"
                      THEN AwaitPromiseAll(c, [chain EXCEPT ![c] = next])
                      ELSE NoResponse)
  /\ UNCHANGED served
  /\ UNCHANGED otherThanPipeline

\* the chain function of c has run from the settled call of `url` to its next
\* await, return or throw, and is now `next`; `m` is what its provider made
\* of the call
ChainResumes(c, url, m, next) ==
  /\ chain' = [chain EXCEPT ![c] = next]
  /\ inflight' = [inflight EXCEPT ![c] =
       (@ \ {url}) \cup (IF next.status = "running" THEN {CurrentUrl(c, next)} ELSE {})]
  /\ started' = [started EXCEPT ![c] =
       IF next.status = "running" THEN Append(@, CurrentUrl(c, next)) ELSE @]
  /\ attempts' = [attempts EXCEPT ![c] =
       IF m.settled THEN Append(@, [pi |-> chain[c].pi, res |-> m.res]) ELSE @]
  /\ HandlerResumes(IF phase = "pending"
                      THEN AwaitPromiseAll(c, [chain EXCEPT ![c] = next])
                      ELSE NoResponse)
  /\ UNCHANGED served
  /\ UNCHANGED otherThanPipeline

\* the outbound call of chain c settles and the try block around it returns or
\* throws `res`: the chain function resumes; it returns, throws, or issues its
\* next call; the handler, if it is still awaiting, responds when Promise.all
\* settles
CallSettles(c, res) ==
  ChainResumes(c, CurrentUrl(c, chain[c]), MirrorLoop(c, chain[c], res),
               IF c = "silver" THEN getSilverUsdPerOunce(chain[c], res)
                               ELSE getUsdIlsRate(chain[c], res))

SilverCallSettles ==
  /\ chain["silver"].status = "running"
  /\ \E res \in AttemptResults["silver"][chain["silver"].pi][chain["silver"].mi] :
       CallSettles("silver", res)

UsdIlsCallSettles ==
  /\ chain["usdIls"].status = "running"
  /\ \E res \in AttemptResults["usdIls"][chain["usdIls"].pi][chain["usdIls"].mi] :
       CallSettles("usdIls", res)

\* the response is out and both chain functions have returned or thrown:
\* nothing of the request is left
RequestOver ==
  /\ phase = "responded"
  /\ \A c \in Chains : chain[c].status \in {"fulfilled", "rejected"}
  /\ phase' = "idle"
  /\ chain' = [c \in Chains |-> IdleChain]
  /\ inflight' = [c \in Chains |-> {}]
  /\ started' = [c \in Chains |-> <<>>]
  /\ attempts' = [c \in Chains |-> <<>>]
  /\ response' = NoResponse
  /\ sent' = 0
  /\ served' = served + 1
  /\ UNCHANGED otherThanPipeline

(***************************************************************************)
(* Requests that read or count the visit statistics.  A request that       *)
(* awaits loadVisitStats, mkdir or writeFile is suspended in `tracking`    *)
(* and resumed by the action that settles what it awaits.                  *)
(***************************************************************************)
Req(method, url, accept, authorization, token) ==
  [method |-> method, url |-> url, accept |-> accept,
   authorization |-> authorization, token |-> token]

\* the requests for the home page, sent by browsers and by other clients
HomeRequests ==
  {Req("GET", url, accept, Undefined, JNull) :
     url \in {"/", "/index.html"},
     accept \in {Undefined, JStr("text/html,application/xhtml+xml"), JStr("*/*")}}
  \cup {Req("POST", "/", JStr("text/html"), Undefined, JNull)}

ClickRequests ==
  {Req("POST", "/api/donation-click", Undefined, Undefined, JNull),
   Req("GET", "/api/donation-click", JStr("text/html"), Undefined, JNull)}

OtherRequests ==
  {Req("GET", "/api/half-shekel", JStr("application/json"), Undefined, JNull),
   Req("GET", "/robots.txt", Undefined, Undefined, JNull),
   Req("GET", "/app.js", JStr("*/*"), Undefined, JNull),
   Req("HEAD", "/", JStr("text/html"), Undefined, JNull)}

StatsRequests ==
  {Req("GET", "/api/visits", Undefined, authorization, token) :
     authorization \in {Undefined, JStr("Bearer s3cret"), JStr("bearer  s3cret "),
                        JStr("Bearer wrong"), JStr("Basic s3cret"), JStr("Bearer  ")},
     token \in {JNull, JStr("s3cret"), JStr(" s3cret "), JStr("wrong")}}
  \cup
  {Req("GET", "/admin/visits", JStr("text/html"), authorization, token) :
     authorization \in {Undefined, JStr("Bearer wrong")},
     token \in {JNull, JStr("s3cret"), JStr("wrong"), JStr("")}}

\* the tokens a deployment may set, and what it may find in the file
AdminTokens == {"", "s3cret"}

SavedStats ==
  JObj([totalVisits |-> JNum(Whole(5)), firstVisitAt |-> JStr("2024-01-01T08:00:00.000Z"),
        lastVisitAt |-> JStr("2024-01-15T12:30:00.000Z"),
        totalDonationClicks |-> JNum(Whole(2)),
        firstDonationClickAt |-> JStr("2024-01-02T09:00:00.000Z"),
        lastDonationClickAt |-> JStr("2024-01-03T10:00:00.000Z"),
        updatedAt |-> JStr("2024-01-15T12:30:00.000Z")])

StoredFiles ==
  {NoFile, NotJson, JsonFile(SavedStats),
   JsonFile(JObj([totalVisits |-> JStr("7.9"), totalDonationClicks |-> JNum(Whole(-1)),
                  firstVisitAt |-> JNum(Whole(12))]))}

\* the number of requests followed in a run of the visit statistics
MaxArrivals == 3

\* new Date().toISOString() when an event is counted
Now(stats) == Iso(Whole(stats.totalVisits + stats.totalDonationClicks + 1))

Counted(kind, stats) ==
  IF kind = "visit" THEN VisitCounted(stats, Now(stats)) ELSE ClickCounted(stats, Now(stats))

Suspended(kind, pc, data) == [kind |-> kind, pc |-> pc, data |-> data]

\* what mkdir and writeFile throw when they fail
MkdirError == "EACCES: permission denied, mkdir 'data'"

WriteError == "ENOSPC: no space left on device, write"

\* serveFile for / and /index.html: public/index.html
HomePage == [status |-> 200, body |-> JStr("index.html")]

\* res.writeHead(204, { 'Cache-Control': 'no-store' }); res.end()
NoContent == [status |-> 204, body |-> JStr("")]

\* the handler after trackVisit / trackDonationClick has returned
AfterTracking(kind) == IF kind = "visit" THEN HomePage ELSE NoContent

\* a faulty variant of TrackingThrew: the call of trackVisit and of
\* trackDonationClick without the try around it, the error reaching the catch
\* of the handler
TrackingThrewUncaught(kind, message) == FailureResponse(message)

\* the catch around the call of trackVisit / trackDonationClick: the error is
\* logged and the handler goes on
TrackingThrew(kind, message) == AfterTracking(kind)

Answered(kind, failed, reply) == [kind |-> kind, failed |-> failed, reply |-> reply]

\* trackVisit / trackDonationClick from the call to the first await that
\* suspends it: loadVisitStats, or mkdir when the statistics are loaded; with
\* the load promise rejected loadVisitStats throws and nothing is counted
TrackCalled(kind) ==
  IF visitStatsLoadPromise = "fulfilled"
    THEN /\ visitStats' = Counted(kind, visitStats)
         /\ tracking' = Append(tracking, Suspended(kind, "mkdir", JNull))
         /\ passed' = [passed EXCEPT ![kind] = @ + 1]
         /\ UNCHANGED <<visitStatsLoadPromise, answers>>
  ELSE IF visitStatsLoadPromise = "rejected"
    THEN /\ answers' = answers \cup {Answered(kind, "load", TrackingThrew(kind, MkdirError))}
         /\ UNCHANGED <<visitStats, visitStatsLoadPromise, tracking, passed>>
    ELSE /\ visitStatsLoadPromise' = "pending"
         /\ tracking' = Append(tracking, Suspended(kind, "load", JNull))
         /\ UNCHANGED <<visitStats, passed, answers>>

NotFound == [status |-> 404, body |-> JStr("Not found")]

\* html(res, 200, page): the page holds a script and no counter
AdminPage == [status |-> 200, body |-> JStr("<!doctype html>")]

\* json(res, 200, { success: true, visits: visitStats })
VisitsResponse(stats) ==
  json(200, JObj([success |-> JBool(TRUE), visits |-> StatsJson(stats)]))

\* GET / or /index.html, or what looks like it
HomeRequest ==
  /\ arrived < MaxArrivals
  /\ \E req \in HomeRequests :
       /\ IF shouldTrackVisit(req, Pathname(req.url))
            THEN TrackCalled("visit")
            ELSE UNCHANGED <<visitStats, visitStatsLoadPromise, tracking, passed, answers>>
       /\ homeVisits' = homeVisits
            + (IF req.method = "GET" /\ Pathname(req.url) \in {"/", "/index.html"}
                 THEN 1 ELSE 0)
  /\ arrived' = arrived + 1
  /\ UNCHANGED <<ADMIN_STATS_TOKEN, visitStatsFile, statsRequest, statsReply, loaded,
                 fileReads>>
  /\ UNCHANGED otherThanVisit

\* POST /api/donation-click, or what looks like it
ClickRequest ==
  /\ arrived < MaxArrivals
  /\ \E req \in ClickRequests :
       IF Pathname(req.url) = "/api/donation-click" /\ req.method = "POST"
         THEN TrackCalled("click")
         ELSE UNCHANGED <<visitStats, visitStatsLoadPromise, tracking, passed, answers>>
  /\ arrived' = arrived + 1
  /\ UNCHANGED <<ADMIN_STATS_TOKEN, visitStatsFile, statsRequest, statsReply, homeVisits,
                 loaded, fileReads>>
  /\ UNCHANGED otherThanVisit

\* a request of another route or method
OtherRequest ==
  /\ arrived < MaxArrivals
  /\ \E req \in OtherRequests :
       IF shouldTrackVisit(req, Pathname(req.url))
         THEN TrackCalled("visit")
         ELSE UNCHANGED <<visitStats, visitStatsLoadPromise, tracking, passed, answers>>
  /\ arrived' = arrived + 1
  /\ UNCHANGED <<ADMIN_STATS_TOKEN, visitStatsFile, statsRequest, statsReply, homeVisits,
                 loaded, fileReads>>
  /\ UNCHANGED otherThanVisit

\* GET /api/visits or GET /admin/visits once the request is authorized
StatsGranted(req) ==
  IF Pathname(req.url) = "/admin/visits"
    THEN statsReply' = AdminPage /\ UNCHANGED <<visitStatsLoadPromise, tracking>>
  ELSE IF visitStatsLoadPromise = "fulfilled"
    THEN statsReply' = VisitsResponse(visitStats)
         /\ UNCHANGED <<visitStatsLoadPromise, tracking>>
  ELSE IF visitStatsLoadPromise = "rejected"
    THEN statsReply' = FailureResponse(MkdirError)
         /\ UNCHANGED <<visitStatsLoadPromise, tracking>>
    ELSE /\ statsReply' = NoResponse
         /\ visitStatsLoadPromise' = "pending"
         /\ tracking' = Append(tracking, Suspended("stats", "load", JNull))

\* GET /api/visits or GET /admin/visits
StatsRequest ==
  /\ arrived < MaxArrivals
  /\ statsRequest = NoRequest \/ statsReply # NoResponse
  /\ \E req \in StatsRequests :
       /\ statsRequest' = req
       /\ IF isAuthorizedForVisitStats(req, ADMIN_STATS_TOKEN)
            THEN StatsGranted(req)
            ELSE statsReply' = NotFound /\ UNCHANGED <<visitStatsLoadPromise, tracking>>
  /\ arrived' = arrived + 1
  /\ UNCHANGED <<ADMIN_STATS_TOKEN, visitStats, visitStatsFile, homeVisits, loaded,
                 fileReads, passed, answers>>
  /\ UNCHANGED otherThanVisit

IsTracked(op) == op.kind # "stats"

MkdirAwaited(ops) ==
  [i \in 1..Len(ops) |-> Suspended(ops[i].kind, "mkdir", JNull)]

\* a faulty variant of LoadAwaited: the requests go on before the load has
\* assigned the statistics of the file, which then replace what they counted
LoadAwaitedOverwritten(ops, stats, resumed, reply) ==
  [visitStats |-> stats,
   tracking |-> MkdirAwaited(SelectSeq(ops, IsTracked)),
   statsReply |-> IF ops = SelectSeq(ops, IsTracked) THEN reply ELSE VisitsResponse(stats)]

\* the requests awaiting loadVisitStats resume in the order of their calls,
\* each up to its next await: a tracked event is counted and persistVisitStats
\* called, the statistics asked for are sent as they are at that moment
RECURSIVE LoadAwaited(_, _, _, _)
LoadAwaited(ops, stats, resumed, reply) ==
  IF ops = <<>>
    THEN [visitStats |-> stats, tracking |-> resumed, statsReply |-> reply]
  ELSE IF Head(ops).kind = "stats"
    THEN LoadAwaited(Tail(ops), stats, resumed, VisitsResponse(stats))
    ELSE LoadAwaited(Tail(ops), Counted(Head(ops).kind, stats),
                     Append(resumed, Suspended(Head(ops).kind, "mkdir", JNull)), reply)

\* how many of the suspended requests ops are of the kind given
Awaiting(ops, kind) == Cardinality({i \in 1..Len(ops) : ops[i].kind = kind})

\* the function started by loadVisitStats has made the directory and read the
\* file: the statistics in memory are those of the file, or empty, and the
\* requests that awaited them go on
LoadSettles ==
  /\ visitStatsLoadPromise = "pending"
  /\ visitStatsLoadPromise' = "fulfilled"
  /\ loaded' = LoadedStats(visitStatsFile)
  /\ visitStats' =
       LoadAwaited(tracking, LoadedStats(visitStatsFile), <<>>, statsReply).visitStats
  /\ tracking' =
       LoadAwaited(tracking, LoadedStats(visitStatsFile), <<>>, statsReply).tracking
  /\ statsReply' =
       LoadAwaited(tracking, LoadedStats(visitStatsFile), <<>>, statsReply).statsReply
  /\ fileReads' = fileReads + 1
  /\ passed' = [kind \in {"visit", "click"} |-> passed[kind] + Awaiting(tracking, kind)]
  /\ UNCHANGED <<ADMIN_STATS_TOKEN, visitStatsFile, statsRequest, arrived, homeVisits,
                 answers>>
  /\ UNCHANGED otherThanVisit

\* the function started by loadVisitStats throws at its mkdir: the promise is
\* rejected for good, every request that awaited it throws out of
\* loadVisitStats, a tracked one into the catch around its tracking, the
\* one for the statistics into the catch of the handler
LoadFails ==
  /\ visitStatsLoadPromise = "pending"
  /\ visitStatsLoadPromise' = "rejected"
  /\ answers' = answers \cup
       {Answered(tracking[i].kind, "load", TrackingThrew(tracking[i].kind, MkdirError)) :
          i \in {j \in 1..Len(tracking) : tracking[j].kind # "stats"}}
  /\ statsReply' = IF Awaiting(tracking, "stats") > 0
                     THEN FailureResponse(MkdirError) ELSE statsReply
  /\ tracking' = <<>>
  /\ UNCHANGED <<ADMIN_STATS_TOKEN, visitStats, visitStatsFile, statsRequest, arrived,
                 homeVisits, loaded, fileReads, passed>>
  /\ UNCHANGED otherThanVisit

\* the suspended requests without the i-th, which has run to its end
Without(ops, i) == SubSeq(ops, 1, i - 1) \o SubSeq(ops, i + 1, Len(ops))

\* persistVisitStats: mkdir has settled, writeFile is called with the text of
\* the statistics as they are now
MkdirSettles ==
  /\ \E i \in 1..Len(tracking) :
       /\ tracking[i].pc = "mkdir"
       /\ tracking' = [tracking EXCEPT ![i].pc = "write", ![i].data = StatsJson(visitStats)]
  /\ UNCHANGED <<ADMIN_STATS_TOKEN, visitStats, visitStatsLoadPromise, visitStatsFile,
                 statsRequest, statsReply, arrived, homeVisits, loaded, fileReads, passed,
                 answers>>
  /\ UNCHANGED otherThanVisit

\* persistVisitStats: mkdir throws, and with it trackVisit / trackDonationClick
MkdirFails ==
  /\ \E i \in 1..Len(tracking) :
       /\ tracking[i].pc = "mkdir"
       /\ answers' = answers \cup
            {Answered(tracking[i].kind, "mkdir", TrackingThrew(tracking[i].kind, MkdirError))}
       /\ tracking' = Without(tracking, i)
  /\ UNCHANGED <<ADMIN_STATS_TOKEN, visitStats, visitStatsLoadPromise, visitStatsFile,
                 statsRequest, statsReply, arrived, homeVisits, loaded, fileReads, passed>>
  /\ UNCHANGED otherThanVisit

\* persistVisitStats: a writeFile completes; writes that are in flight
\* together complete in any order, and the file holds the text of the last
WriteSettles ==
  /\ \E i \in 1..Len(tracking) :
       /\ tracking[i].pc = "write"
       /\ visitStatsFile' = JsonFile(tracking[i].data)
       /\ answers' = answers \cup {Answered(tracking[i].kind, "", AfterTracking(tracking[i].kind))}
       /\ tracking' = Without(tracking, i)
  /\ UNCHANGED <<ADMIN_STATS_TOKEN, visitStats, visitStatsLoadPromise, statsRequest,
                 statsReply, arrived, homeVisits, loaded, fileReads, passed>>
  /\ UNCHANGED otherThanVisit

\* persistVisitStats: writeFile throws, and with it trackVisit /
\* trackDonationClick; the file is left as it was
WriteFails ==
  /\ \E i \in 1..Len(tracking) :
       /\ tracking[i].pc = "write"
       /\ answers' = answers \cup
            {Answered(tracking[i].kind, "write", TrackingThrew(tracking[i].kind, WriteError))}
       /\ tracking' = Without(tracking, i)
  /\ UNCHANGED <<ADMIN_STATS_TOKEN, visitStats, visitStatsLoadPromise, visitStatsFile,
                 statsRequest, statsReply, arrived, homeVisits, loaded, fileReads, passed>>
  /\ UNCHANGED otherThanVisit

(***************************************************************************)
(* One invocation of fetchJson / fetchText at a time, with the clock.       *)
(***************************************************************************)
\* the number of invocations followed, and how long the clock is followed
MaxFetches == 2

MaxElapsed == 7000

\* the statuses a response may carry, and the bodies that may be read
Statuses == {200, 204, 299, 300, 404, 503}

Bodies == {[valid |-> TRUE, data |-> JStr("31.5")], [valid |-> FALSE, data |-> JStr("<html>")]}

FetchCalled ==
  /\ fetchCall.pc \in {"idle", "settled"}
  /\ fetched < MaxFetches
  /\ \E fn \in {"fetchJson", "fetchText"} : fetchCall' = Invoked(fn)
  /\ fetched' = fetched + 1
  /\ UNCHANGED otherThanFetch

\* a second passes; a timer that is due fires before the clock goes on
Tick ==
  /\ fetchCall.pc # "idle"
  /\ fetchCall.elapsed < MaxElapsed
  /\ ~(fetchCall.timer = "armed" /\ fetchCall.elapsed >= FIVE_SECONDS)
  /\ fetchCall' = [fetchCall EXCEPT !.elapsed = @ + 1000]
  /\ UNCHANGED <<fetched, otherThanFetch>>

\* setTimeout(() => controller.abort(), FIVE_SECONDS)
TimerFires ==
  /\ fetchCall.timer = "armed"
  /\ fetchCall.elapsed >= FIVE_SECONDS
  /\ fetchCall' = TimerFired(fetchCall)
  /\ UNCHANGED <<fetched, otherThanFetch>>

\* fetch rejects: no response
FetchRejects ==
  /\ fetchCall.pc = "fetch"
  /\ fetchCall' = Settled(fetchCall, NetworkError)
  /\ UNCHANGED <<fetched, otherThanFetch>>

\* fetch resolves with a response
FetchResolves ==
  /\ fetchCall.pc = "fetch"
  /\ \E status \in Statuses : fetchCall' = ResponseReceived(fetchCall, status)
  /\ UNCHANGED <<fetched, otherThanFetch>>

\* response.json() / response.text() settles
BodyRead ==
  /\ fetchCall.pc = "body"
  /\ \E body \in Bodies :
       fetchCall' = Settled(fetchCall, Response(fetchCall.status, body.valid, body.data))
  /\ UNCHANGED <<fetched, otherThanFetch>>

Next ==
  \/ Request
  \/ SilverCallSettles
  \/ UsdIlsCallSettles
  \/ RequestOver

Spec == Init /\ [][Next]_vars

\* the pricing pipeline when every outbound call settles: the call in flight
\* of a running chain gets its response, its error or the abort of its timer
\* (fetchJson, fetchText: the timer is armed before fetch is called)
MaxLiveRequests == 1

LiveRequest == served < MaxLiveRequests /\ Request

LiveNext ==
  \/ LiveRequest
  \/ SilverCallSettles
  \/ UsdIlsCallSettles
  \/ RequestOver

LiveSpec ==
  /\ Init
  /\ [][LiveNext]_vars
  /\ WF_vars(SilverCallSettles)
  /\ WF_vars(UsdIlsCallSettles)

\* the server started with any admin token and any file
VisitInit ==
  /\ \E token \in AdminTokens : \E content \in StoredFiles : ServerStarted(token, content)
  /\ argument = NoArgument
  /\ returned = NotReturned

VisitNext ==
  \/ HomeRequest
  \/ ClickRequest
  \/ OtherRequest
  \/ StatsRequest
  \/ LoadSettles
  \/ LoadFails
  \/ MkdirSettles
  \/ MkdirFails
  \/ WriteSettles
  \/ WriteFails

VisitSpec == VisitInit /\ [][VisitNext]_vars

(***************************************************************************)
(* The functions of the module applied to one value at a time.             *)
(***************************************************************************)
Applied(fn, value) == [fn |-> fn, value |-> value]

\* the values toIsoTimestamp is applied to
Timestamps ==
  { JNum(Whole(1700000000)), JNum(Kilo(Whole(1700000000))),
    JNum(Whole(1705321800)), JNum(Kilo(Whole(1705321800))),
    JNum(Kilo(Whole(1000000000))), JNum(Kilo(Rat(2000000001, 2))),
    JNum(Kilo(Whole(999999999))), JNum(Whole(1000000000)),
    JNum(Whole(0)), JNum(Whole(-86400)), JNum(Rat(172801, 2)),
    JNum(NaN), JNum(Infinity), JNum([n |-> -1, d |-> 0]),
    JStr("2024-01-15"), JStr("2024-01-15T12:30:00.000Z"),
    JStr("Mon, 15 Jan 2024 00:02:31 +0000"), JStr("soon"), JStr("1700000000"),
    JStr(""), JStr("   "), JNull, Undefined, JBool(TRUE), JObj([date |-> JStr("2024-01-15")]),
    JArr(<<>>) }

\* the values normalizeNumber is applied to
Numerals ==
  { JStr("1,234.56"), JStr("1234,56"), JStr("1234.56"), JStr("abc"), JStr(""), JStr("   "),
    JStr(" 3,65 "), JStr("3.7"), JStr("1,234,567.8"), JStr("1,234,567"), JStr("1.234,56"),
    JStr("-2,5"), JStr(",5"), JStr("5,"), JStr("12"), JStr("1 234"), JStr("3,7 ILS"),
    JNum(Rat(123456, 100)), JNum(Whole(0)), JNum(Whole(-4)), JNum(NaN), JNum(Infinity),
    JNull, Undefined, JBool(TRUE), JObj([value |-> JStr("3.7")]), JArr(<<JStr("3.7")>>) }

NormalizeNumberApplied ==
  /\ argument.fn = "normalizeNumber"
  /\ returned = NotReturned
  /\ returned' = Ok(normalizeNumber(argument.value))
  /\ UNCHANGED <<argument, otherThanPure>>

\* the timestamp fields a JSON body may carry (Undefined: none) and the
\* timestamp texts an XML or CSV body may carry
JsonStamps ==
  { Undefined, JNull, JStr(""), JStr("soon"), JBool(TRUE), JObj([at |-> JStr("2024-01-15")]),
    JStr("2024-01-15"), JNum(Whole(1705276951)), JNum(Kilo(Whole(1705276951))) }

TextStamps == {Undefined, JStr(""), JStr("soon"), JStr("2024-01-15")}

\* the object with one more field, or as it is when the field is absent
WithField(fields, name, value) ==
  IF value = Undefined THEN fields ELSE (name :> value) @@ fields

\* a body from which provider pi of the USD/ILS chain extracts the rate 3.7,
\* carrying the timestamp fields given
FreshnessBody(pi, stamps) ==
  CASE pi = 1 ->
         JsonBody(JObj([exchangeRates |-> JArr(<<
           JObj(WithField([key |-> JStr("USD"),
                           currentExchangeRate |-> JNum(StringToNumber("3.7"))],
                          "lastUpdate", stamps[1])) >>)]))
    [] pi = 2 ->
         TextBody("<CURRENCIES>"
                    \o (IF stamps[1] = Undefined THEN ""
                        ELSE "<LAST_UPDATE>" \o stamps[1].s \o "</LAST_UPDATE>")
                    \o XmlBlock("USD", "3.7") \o "</CURRENCIES>")
    [] pi = 3 ->
         TextBody(IF stamps[1] = Undefined
                    THEN "DATA_TYPE,OBS_VALUE\nRER_USD_ILS,3.7\n"
                    ELSE "DATA_TYPE,TIME_PERIOD,OBS_VALUE\nRER_USD_ILS,"
                           \o stamps[1].s \o ",3.7\n")
    [] pi = 4 ->
         JsonBody(JObj(WithField([rates |-> JObj([ILS |-> JNum(StringToNumber("3.7"))])],
                                 "date", stamps[1])))
    [] pi = 5 ->
         JsonBody(JObj(WithField(WithField(
                                   [rates |-> JObj([ILS |-> JNum(StringToNumber("3.7"))])],
                                   "time_last_update_unix", stamps[1]),
                                 "time_last_update_utc", stamps[2])))
    [] pi = 6 ->
         JsonBody(JObj(WithField([quotes |-> JObj([USDILS |-> JNum(StringToNumber("3.7"))])],
                                 "timestamp", stamps[1])))

\* the providers of the USD/ILS chain with the timestamp fields of the body
Freshness ==
  {[pi |-> pi, stamps |-> <<stamp>>] : pi \in {1, 4, 6}, stamp \in JsonStamps}
    \cup {[pi |-> pi, stamps |-> <<stamp>>] : pi \in {2, 3}, stamp \in TextStamps}
    \cup {[pi |-> 5, stamps |-> <<unix, utc>>] :
            unix \in {Undefined, JStr("soon"), JNum(Whole(1705276951))},
            utc \in {Undefined, JStr(""), JBool(TRUE), JStr("2024-01-15")}}

\* a provider of the USD/ILS chain applied to the payload of its call
ProviderApplied ==
  /\ argument.fn = "provider"
  /\ returned = NotReturned
  /\ returned' = Attempt("usdIls", argument.value.pi,
                         FreshnessBody(argument.value.pi, argument.value.stamps))
  /\ UNCHANGED <<argument, otherThanPure>>

\* Bank of Israel XML documents: the CURRENCY blocks of a document in order,
\* each with its CURRENCYCODE and the text of its RATE ("" : no RATE text)
Currency(code, rate) == [code |-> code, rate |-> rate]

CurrencyLists ==
  { <<Currency("USD", "3.7")>>,
    <<Currency("USD", "3.7"), Currency("EUR", "4.05")>>,
    <<Currency("EUR", "4.05"), Currency("USD", "3.7")>>,
    <<Currency("GBP", "4.7"), Currency("usd", "3,65"), Currency("EUR", "4.05")>>,
    <<Currency("Usd", "3.65")>>,
    <<Currency("EUR", "4.05")>>,
    <<Currency("EUR", "4.05"), Currency("GBP", "4.7")>>,
    <<Currency("USD", "")>>,
    <<Currency("USD", "n/a")>>,
    <<Currency("USD", ""), Currency("EUR", "4.05")>>,
    <<>> }

RECURSIVE XmlBlocks(_)
XmlBlocks(currencies) ==
  IF currencies = <<>> THEN ""
  ELSE XmlBlock(Head(currencies).code, Head(currencies).rate) \o XmlBlocks(Tail(currencies))

\* what is not a document
NoDocuments == {JStr(""), JStr("  \n"), JNull, Undefined, JObj([CURRENCIES |-> JArr(<<>>)])}

ParseBoiXmlApplied ==
  /\ argument.fn = "parseBoiRepresentativeUsdIls"
  /\ returned = NotReturned
  /\ returned' = parseBoiRepresentativeUsdIls(
                   IF argument.value.document
                     THEN JStr(BoiXml(XmlBlocks(argument.value.currencies)))
                     ELSE argument.value.text)
  /\ UNCHANGED <<argument, otherThanPure>>

\* BOI edge CSV texts: a header line and data lines, each a list of cells
Csv(header, rows) == [header |-> header, rows |-> rows]

CsvTables ==
  { Csv(<<"DATA_TYPE", "TIME_PERIOD", "OBS_VALUE">>, << <<"RER_USD_ILS", "2024-01-15", "3.7">> >>),
    Csv(<<"DATA_TYPE", "TIME_PERIOD", "OBS_VALUE">>,
        << <<"RER_USD_ILS", "2024-01-14", "3.6">>, <<"RER_USD_ILS", "2024-01-15", "3.7">> >>),
    Csv(<<"series", "date", "value">>, << <<"RER_USD_ILS", "2024-01-15", "3,65">> >>),
    Csv(<<"SERIES", "WHEN", "AMOUNT">>, << <<"RER_USD_ILS", "2024-01-15", "3.65">> >>),
    Csv(<<"SERIES", "AMOUNT", "NOTE">>, << <<"RER_USD_ILS", "3.65", "12">> >>),
    Csv(<<"OBS_VALUE", "VALUE">>, << <<"3.7", "9">> >>),
    Csv(<<"TIME_PERIOD", "OBS_VALUE">>, << <<"2024", "n/a">> >>),
    Csv(<<"TIME_PERIOD", "OBS_VALUE", "OBS_STATUS">>, << <<"2024-01-15", "", "A">> >>),
    Csv(<<"DATA_TYPE", "TIME_PERIOD", "OBS_VALUE">>, << <<"RER_USD_ILS", "3.7">> >>),
    Csv(<<"SERIES", "WHEN">>, << <<"RER_USD_ILS", "soon">> >>),
    Csv(<<"DATA_TYPE", "TIME_PERIOD", "OBS_VALUE">>, <<>>) }

\* a cell as it is written: between double quotes when it holds a comma
CsvCells(row) ==
  [i \in 1..Len(row) |-> IF Includes(row[i], ",") THEN "\"" \o row[i] \o "\"" ELSE row[i]]

\* the text of a table: its lines, an empty line after each, cells joined by ','
CsvLines(rows) == [i \in 1..Len(rows) |-> Join(CsvCells(rows[i]), ",") \o "\n\n"]

CsvText(table) == Join(table.header, ",") \o "\n" \o Join(CsvLines(table.rows), "")

ParseBoiEdgeApplied ==
  /\ argument.fn = "parseBoiEdgeRepresentativeUsdIls"
  /\ returned = NotReturned
  /\ returned' = parseBoiEdgeRepresentativeUsdIls(
                   IF argument.value.document
                     THEN JStr(CsvText(argument.value.table))
                     ELSE argument.value.text)
  /\ UNCHANGED <<argument, otherThanPure>>

ToIsoTimestampApplied ==
  /\ argument.fn = "toIsoTimestamp"
  /\ returned = NotReturned
  /\ returned' = Ok(toIsoTimestamp(argument.value))
  /\ UNCHANGED <<argument, otherThanPure>>

(***************************************************************************)
(* The page (public/app.js): loadHalfShekel and fetchHalfShekelWithRetry.   *)
(***************************************************************************)
\* the number of runs of loadHalfShekel followed
MaxLoads == 2

\* sleep(900)
RETRY_DELAY_MS == 900

\* response.text() rejects: the connection breaks while the body is read
BodyError(status) == [kind |-> "bodyError", status |-> status]

\* what the server sends on success, as the page parses it
Priced(ils) ==
  JObj([success |-> JBool(TRUE),
        updatedAt |-> NowIso,
        market |-> JObj([silverUsdPerOunce |-> JNum(Whole(30)),
                         usdIls |-> JNum(Rat(37, 10))]),
        result |-> JObj([halfShekelIlsWithVat |-> JNum(Whole(ils))])])

\* success bodies that lack what loadHalfShekel reads
Unpriced == JObj([success |-> JBool(TRUE)])

Undated ==
  JObj([success |-> JBool(TRUE),
        market |-> JObj([silverUsdPerOunce |-> JNull, usdIls |-> JNum(Rat(37, 10))]),
        result |-> JObj([halfShekelIlsWithVat |-> JNull])])

\* what the network does with one request of the page for /api/half-shekel
PageOutcomes ==
  {NetworkError,
   BodyError(200),
   Response(200, TRUE, Priced(41)),
   Response(200, TRUE, Priced(42)),
   Response(500, TRUE, FailureResponse("Unable to fetch USD/ILS rate: HTTP 503").body),
   Response(500, TRUE, Priced(41)),
   Response(200, TRUE, Unpriced),
   Response(200, TRUE, Undated),
   Response(200, TRUE, JObj([success |-> JBool(FALSE)])),
   Response(200, TRUE, JNull),
   Response(502, FALSE, JStr("<html>Bad Gateway</html>")),
   Response(200, FALSE, JStr(""))}

\* (data?.error || 'Failed to load') + details
FailedToLoad(data) ==
  (IF Truthy(OptGet(data, "error")) THEN OptGet(data, "error").s ELSE "Failed to load")
  \o (IF Truthy(OptGet(data, "details"))
        THEN " (" \o OptGet(data, "details").s \o ")" ELSE "")

\* the statements of the try block after response.text() has settled with
\* the outcome o: the data returned, or the error thrown
TextRead(o) ==
  IF o.kind = "bodyError" THEN Throw("network error")
  ELSE IF ~o.valid
    THEN Throw("Server returned non-JSON response (" \o ToString(o.status) \o ")")
  ELSE IF ~ResponseOk(o) THEN Throw(FailedToLoad(o.data))
  ELSE IF IsNullish(o.data) THEN Throw(TypeErrorMessage(o.data, "success"))
  ELSE IF ~Truthy(Get(o.data, "success")) THEN Throw(FailedToLoad(o.data))
  ELSE Ok(o.data)

\* a faulty variant of Caught: the error kept is that of the first failed
\* attempt
CaughtKeepsFirst(r, o, message) ==
  IF r.attempt < r.maxAttempts
    THEN [r EXCEPT !.pc = "sleep", !.response = JNull,
                   !.lastError = IF @ = "" THEN message ELSE @,
                   !.outcomes = Append(@, o), !.waits = Append(@, RETRY_DELAY_MS)]
    ELSE [r EXCEPT !.pc = "threw", !.response = JNull,
                   !.lastError = IF @ = "" THEN message ELSE @,
                   !.outcomes = Append(@, o),
                   !.result = Throw(IF r.lastError = "" THEN message ELSE r.lastError)]

\* the catch of the loop: the error is kept; before another attempt the
\* function sleeps, after the last the loop ends and the error is thrown
Caught(r, o, message) ==
  IF r.attempt < r.maxAttempts
    THEN [r EXCEPT !.pc = "sleep", !.response = JNull, !.lastError = message,
                   !.outcomes = Append(@, o), !.waits = Append(@, RETRY_DELAY_MS)]
    ELSE [r EXCEPT !.pc = "threw", !.response = JNull, !.lastError = message,
                   !.outcomes = Append(@, o), !.result = Throw(message)]

\* return data
DataReturned(r, o, data) ==
  [r EXCEPT !.pc = "returned", !.response = JNull, !.outcomes = Append(@, o),
            !.result = Ok(data)]

\* the call fetchHalfShekelWithRetry(maxAttempts), up to its first fetch
fetchHalfShekelWithRetry(maxAttempts) ==
  [NotCalled EXCEPT !.pc = "fetch", !.attempt = 1, !.maxAttempts = maxAttempts, !.made = 1]

\* the number of calls of loadHalfShekel followed
MaxCalls == 3

\* Intl.NumberFormat(...).format(value): the value is converted to a number
formatMoney(value, currency, digits) ==
  Shown("money", [n |-> ToNumber(value), currency |-> currency, digits |-> digits])

formatNumber(value, digits) == Shown("number", [n |-> ToNumber(value), digits |-> digits])

\* new Date(isoString) is a valid date; format throws a RangeError otherwise
IsValidDate(x) ==
  \/ x.t = "null"
  \/ x.t = "string" /\ ("now" \in DOMAIN x \/ "iso" \in DOMAIN x)

\* where the statements of the try block after the await have got to: the
\* page as they leave it, and the error thrown if one was
Stage(p, threw, message) == [page |-> p, threw |-> threw, msg |-> message]

\* els.ilsValueWithVat.textContent = formatMoney(...)
WithIls(p, data) ==
  [p EXCEPT !.ilsValueWithVat =
     formatMoney(Get(Get(data, "result"), "halfShekelIlsWithVat"), "ILS", 2)]

\* the three assignments that read data.market
WithMarket(p, market) ==
  [p EXCEPT !.silverValue = formatMoney(Get(market, "silverUsdPerOunce"), "USD", 3),
            !.silverIlsValue =
               formatMoney(JNum(NumMul(ToNumber(Get(market, "silverUsdPerOunce")),
                                       ToNumber(Get(market, "usdIls")))), "ILS", 2),
            !.usdIlsValue = formatNumber(Get(market, "usdIls"), 4)]

\* the statements of the try block of loadHalfShekel after the await, with
\* the data returned: each assignment in turn, up to the first that throws
ShowData(p, data) ==
  IF IsNullish(Get(data, "result"))
    THEN Stage(p, TRUE, TypeErrorMessage(Get(data, "result"), "halfShekelIlsWithVat"))
  ELSE IF IsNullish(Get(data, "market"))
    THEN Stage(WithIls(p, data), TRUE,
               TypeErrorMessage(Get(data, "market"), "silverUsdPerOunce"))
  ELSE IF ~IsValidDate(Get(data, "updatedAt"))
    THEN Stage(WithMarket(WithIls(p, data), Get(data, "market")), TRUE,
               "Invalid time value")
    ELSE Stage([WithMarket(WithIls(p, data), Get(data, "market")) EXCEPT
                  !.cardUpdatedText = Shown("updated", Get(data, "updatedAt"))],
               FALSE, "")

\* the catch block of loadHalfShekel
ShowError(p, message) ==
  [p EXCEPT !.cardUpdatedText = Shown("failed", JStr(message)),
            !.ilsValueWithVat = Shown("text", JStr("--")),
            !.silverIlsValue = Shown("text", JStr("(--)"))]

\* the try block has ended at the stage given: the catch block runs if it threw
AfterTry(stage) == IF stage.threw THEN ShowError(stage.page, stage.msg) ELSE stage.page

\* the finally block of loadHalfShekel, as far as the page goes
Finally(p) == [p EXCEPT !.refreshDisabled = FALSE]

\* a faulty variant of loadHalfShekel: the function without its first line,
\* which starts a run whether or not one is under way
loadHalfShekelUnguarded ==
  /\ loads < MaxLoads
  /\ calls.all < MaxCalls
  /\ calls' = [all |-> calls.all + 1, runs |-> calls.runs + 1]
  /\ isLoading' = TRUE
  /\ retry' = fetchHalfShekelWithRetry(3)
  /\ page' = [page EXCEPT !.refreshDisabled = TRUE,
                          !.cardUpdatedText = Shown("updating", JNull)]
  /\ UNCHANGED loads
  /\ UNCHANGED otherThanPage

\* loadHalfShekel is called, by the page at load, by its timer or by the
\* refresh button: it returns at once while a run is under way, and
\* otherwise runs up to the first fetch of fetchHalfShekelWithRetry(3)
loadHalfShekel ==
  /\ loads < MaxLoads
  /\ calls.all < MaxCalls
  /\ IF isLoading
       THEN /\ calls' = [calls EXCEPT !.all = @ + 1]
            /\ UNCHANGED <<isLoading, retry, page>>
       ELSE /\ calls' = [all |-> calls.all + 1, runs |-> calls.runs + 1]
            /\ isLoading' = TRUE
            /\ retry' = fetchHalfShekelWithRetry(3)
            /\ page' = [page EXCEPT !.refreshDisabled = TRUE,
                                    !.cardUpdatedText = Shown("updating", JNull)]
  /\ UNCHANGED loads
  /\ UNCHANGED otherThanPage

\* fetch settles: it rejects, or the response is there and its body is read
PageFetchSettles ==
  /\ retry.pc = "fetch"
  /\ \E o \in PageOutcomes :
       retry' = IF o.kind = "network"
                  THEN Caught(retry, o, "Failed to fetch")
                  ELSE [retry EXCEPT !.pc = "text", !.response = o]
  /\ UNCHANGED <<isLoading, loads, page, calls>>
  /\ UNCHANGED otherThanPage

\* response.text() settles and the rest of the try block runs
PageTextSettles ==
  /\ retry.pc = "text"
  /\ retry' = IF TextRead(retry.response).ok
                THEN DataReturned(retry, retry.response, TextRead(retry.response).val)
                ELSE Caught(retry, retry.response, TextRead(retry.response).msg)
  /\ UNCHANGED <<isLoading, loads, page, calls>>
  /\ UNCHANGED otherThanPage

\* sleep(900) is over: the next turn of the loop calls fetch
SleepOver ==
  /\ retry.pc = "sleep"
  /\ retry' = [retry EXCEPT !.pc = "fetch", !.attempt = @ + 1, !.made = @ + 1]
  /\ UNCHANGED <<isLoading, loads, page, calls>>
  /\ UNCHANGED otherThanPage

\* fetchHalfShekelWithRetry has returned or thrown: loadHalfShekel shows the
\* data, or the message of what was thrown to it or by its own try block,
\* and its finally block runs
LoadOver ==
  /\ retry.pc \in {"returned", "threw"}
  /\ page' = Finally(IF retry.pc = "returned"
                       THEN AfterTry(ShowData(page, retry.result.val))
                       ELSE ShowError(page, retry.result.msg))
  /\ isLoading' = FALSE
  /\ retry' = NotCalled
  /\ loads' = loads + 1
  /\ UNCHANGED calls
  /\ UNCHANGED otherThanPage

PageNext ==
  \/ loadHalfShekel
  \/ PageFetchSettles
  \/ PageTextSettles
  \/ SleepOver
  \/ LoadOver

PageSpec == Init /\ [][PageNext]_vars

\* the page when every request settles: fetch and response.text() resolve or
\* reject, the timer of sleep fires, and a function whose await has settled
\* goes on
PageLiveSpec ==
  /\ Init
  /\ [][PageNext]_vars
  /\ WF_vars(PageFetchSettles)
  /\ WF_vars(PageTextSettles)
  /\ WF_vars(SleepOver)
  /\ WF_vars(LoadOver)

FetchNext ==
  \/ FetchCalled
  \/ Tick
  \/ TimerFires
  \/ FetchRejects
  \/ FetchResolves
  \/ BodyRead

FetchSpec == Init /\ [][FetchNext]_vars

\* the values the functions are applied to
Arguments ==
  {Applied("toIsoTimestamp", value) : value \in Timestamps}
    \cup {Applied("normalizeNumber", value) : value \in Numerals}
    \cup {Applied("provider", value) : value \in Freshness}
    \cup {Applied("parseBoiRepresentativeUsdIls", [document |-> TRUE, currencies |-> list]) :
            list \in CurrencyLists}
    \cup {Applied("parseBoiRepresentativeUsdIls", [document |-> FALSE, text |-> text]) :
            text \in NoDocuments}
    \cup {Applied("parseBoiEdgeRepresentativeUsdIls", [document |-> TRUE, table |-> table]) :
            table \in CsvTables}
    \cup {Applied("parseBoiEdgeRepresentativeUsdIls", [document |-> FALSE, text |-> text]) :
            text \in NoDocuments}

ParseInit ==
  /\ ServerStarted("", NoFile)
  /\ argument \in Arguments
  /\ returned = NotReturned

ParseNext ==
  \/ ToIsoTimestampApplied
  \/ NormalizeNumberApplied
  \/ ProviderApplied
  \/ ParseBoiXmlApplied
  \/ ParseBoiEdgeApplied

ParseSpec == ParseInit /\ [][ParseNext]_vars

(***************************************************************************)
(* Properties.  `attempts[c]` is the log of what each invoked provider of  *)
(* chain c returned or threw, `started[c]` the log of its outbound calls.  *)
(***************************************************************************)
\* the index, in the providers array of chain c, of the provider that calls url
ProviderOf(c, url) ==
  CHOOSE pi \in DOMAIN Providers(c) :
    \E mi \in DOMAIN Providers(c)[pi].urls : Providers(c)[pi].urls[mi] = url

\* the k-th provider invoked by chain c returned a quote and all before it threw
FirstSuccess(c, k) ==
  /\ attempts[c][k].res.ok
  /\ \A j \in 1..(k - 1) : ~attempts[c][j].res.ok

\* C1: in each chain, once provider k is the first to succeed, the chain has
\* returned exactly the quote of provider k, and no outbound call of the request
\* belongs to a provider after k: none is invoked, none is in flight.
C1_FirstSuccessShortCircuits ==
  \A c \in Chains : \A k \in 1..Len(attempts[c]) :
    FirstSuccess(c, k) =>
      /\ attempts[c][k].pi = k
      /\ k = Len(attempts[c])
      /\ chain[c].status = "fulfilled"
      /\ chain[c].value = attempts[c][k].res.val
      /\ inflight[c] = {}
      /\ \A i \in 1..Len(started[c]) : ProviderOf(c, started[c][i]) <= k

\* both chains have returned the quote of a provider that is neither their first
\* nor their last, after the providers before it failed
C1_Witness ==
  \A c \in Chains :
    /\ Len(attempts[c]) \in 2..(Len(Providers(c)) - 1)
    /\ FirstSuccess(c, Len(attempts[c]))
    /\ chain[c].status = "fulfilled"

\* the messages msgs stand in s one after the other from position pos on,
\* each separated from the next by sep
RECURSIVE InOrderAt(_, _, _, _)
InOrderAt(s, msgs, sep, pos) ==
  \/ msgs = <<>>
  \/ /\ SubSeq(s, pos, pos + Len(Head(msgs)) - 1) = Head(msgs)
     /\ InOrderAt(s, Tail(msgs), sep, pos + Len(Head(msgs)) + Len(sep))

\* the messages thrown by the providers chain c has invoked, in attempt order
FailureMessages(c) ==
  [i \in 1..Len(attempts[c]) |-> IF attempts[c][i].res.ok THEN "" ELSE attempts[c][i].res.msg]

\* C2: a chain has thrown only if each of its N providers was invoked once, in
\* order, and threw; the message it throws starts with the label of the chain
\* and holds, after the label, the N messages of the providers in attempt order.
C2_AggregateError ==
  \A c \in Chains :
    chain[c].status = "rejected" =>
      /\ Len(attempts[c]) = Len(Providers(c))
      /\ \A i \in 1..Len(attempts[c]) : attempts[c][i].pi = i /\ ~attempts[c][i].res.ok
      /\ SubSeq(chain[c].error, 1, Len(ChainLabel(c))) = ChainLabel(c)
      /\ InOrderAt(chain[c].error, FailureMessages(c), " | ", Len(ChainLabel(c)) + 1)

\* the USD/ILS chain has thrown after its six providers and eleven calls failed
C2_Witness ==
  /\ chain["usdIls"].status = "rejected"
  /\ Len(attempts["usdIls"]) = 6
  /\ Len(started["usdIls"]) = 11

\* x > 0
IsPositive(x) == x.n > 0

\* C3: every quote a provider returns has a finite, strictly positive value, so
\* the price and the rate a success response is computed from are positive.
C3_QuotesFinitePositive ==
  /\ \A c \in Chains : \A i \in 1..Len(attempts[c]) :
       attempts[c][i].res.ok =>
         IsFinite(attempts[c][i].res.val.value) /\ IsPositive(attempts[c][i].res.val.value)
  /\ response.status = 200 =>
       \A c \in Chains : IsFinite(chain[c].value.value) /\ IsPositive(chain[c].value.value)

\* the members of the response body
Body(name) == Get(response.body, name)

Market(name) == Get(Body("market"), name)

Result(name) == Get(Body("result"), name)

Constant(name) == Get(Body("constants"), name)

\* the success body holds, for chain c, a numeric value, a source and a timestamp
CarriesQuote(c, value) ==
  /\ Market(value).t = "number"
  /\ Get(Market("sources"), c).t = "string"
  /\ Get(Market("updatedAt"), c).t = "string"

\* C4: a request is answered once, and either with status 200, success = true,
\* a quote (value, source, timestamp) of each chain and the three results, both
\* chains having returned; or with status 500, success = false and neither
\* market nor result, a chain having thrown.  Once a chain has thrown the
\* answer is the 500 one.
C4_SuccessOrFailure ==
  /\ sent <= 1
  /\ (phase = "responded") = (sent = 1)
  /\ (phase = "responded") = (response # NoResponse)
  /\ phase = "responded" =>
       \/ /\ response.status = 200
          /\ Body("success") = JBool(TRUE)
          /\ \A c \in Chains : chain[c].status = "fulfilled"
          /\ CarriesQuote("silver", "silverUsdPerOunce")
          /\ CarriesQuote("usdIls", "usdIls")
          /\ \A r \in {"halfShekelUsd", "halfShekelIlsNoVat", "halfShekelIlsWithVat"} :
               Result(r).t = "number"
       \/ /\ response.status = 500
          /\ Body("success") = JBool(FALSE)
          /\ Body("market") = Undefined
          /\ Body("result") = Undefined
          /\ \E c \in Chains : chain[c].status = "rejected"
  /\ (phase = "responded" /\ \E c \in Chains : chain[c].status = "rejected") =>
       response.status = 500

\* C5: once the response is sent, neither chain has a call in flight or a
\* provider still to try: both chain functions have returned or thrown.
C5_NothingOutlivesResponse ==
  phase = "responded" =>
    \A c \in Chains : inflight[c] = {} /\ chain[c].status \in {"fulfilled", "rejected"}

\* the messages msgs occur in s, in this order, without overlap, from position
\* `from` on
RECURSIVE OccurInOrder(_, _, _)
OccurInOrder(s, msgs, from) ==
  \/ msgs = <<>>
  \/ \E p \in from..(Len(s) - Len(Head(msgs)) + 1) :
       /\ SubSeq(s, p, p + Len(Head(msgs)) - 1) = Head(msgs)
       /\ OccurInOrder(s, Tail(msgs), p + Len(Head(msgs)))

\* C6: the details of a failure response hold, in attempt order, the failure
\* messages of every chain of the request that has thrown, of both chains when
\* both have.
C6_DetailsHoldEveryReason ==
  response.status = 500 =>
    \A c \in Chains :
      chain[c].status = "rejected" =>
        OccurInOrder(Body("details").s, FailureMessages(c), 1)

\* x > y for finite x and y, g the greatest common divisor of their denominators
FiniteGT(x, y, g) == x.n * (y.d \div g) > y.n * (x.d \div g)

\* JavaScript x > y (false when either side is NaN)
NumGT(x, y) ==
  IF IsNaN(x) \/ IsNaN(y) THEN FALSE
  ELSE IF ~IsFinite(x) THEN x.n = 1 /\ y # Infinity
  ELSE IF ~IsFinite(y) THEN y.n = -1
  ELSE FiniteGT(x, y, Gcd(x.d, y.d))

\* the success response was computed from a finite positive price and rate
FinitePositiveMarket ==
  /\ response.status = 200
  /\ \A c \in Chains : IsFinite(chain[c].value.value) /\ IsPositive(chain[c].value.value)

C8_NinePointSixGrams ==
  ( /\ response.status = 200
    /\ Market("silverUsdPerOunce") = JNum(Rat(311034768, 10000000))
    /\ Market("usdIls") = JNum(Rat(37, 10)) ) =>
    /\ Constant("troyOunces").v = NumDiv(Rat(96, 10), Rat(311034768, 10000000))
    /\ Result("halfShekelUsd").v = Rat(96, 10)
    /\ Result("halfShekelIlsNoVat").v = Rat(3552, 100)
    /\ Result("halfShekelIlsWithVat").v = Rat(419136, 10000)

\* all outbound calls of the request that have not settled
AllInFlight == UNION {inflight[c] : c \in Chains}

\* C9: while a request is being served both chains have been started; each
\* chain has at most one call in flight, the call it started last, every call
\* it started before having settled; the request has at most two in flight; a
\* chain is running exactly while it has a call in flight.
C9_SequentialWithinConcurrentAcross ==
  /\ phase # "idle" => \A c \in Chains : Len(started[c]) >= 1
  /\ \A c \in Chains :
       /\ Cardinality(inflight[c]) <= 1
       /\ \A u \in inflight[c] : Len(started[c]) >= 1 /\ u = started[c][Len(started[c])]
       /\ (chain[c].status = "running") = (inflight[c] # {})
  /\ Cardinality(AllInFlight) <= 2

\* the steps of the chains interleave: each chain has had calls fail and has
\* its next call in flight, two calls in all
C9_Witness ==
  /\ \A c \in Chains : Len(started[c]) >= 2 /\ inflight[c] # {}
  /\ Cardinality(AllInFlight) = 2

\* the URLs of chain c in declared order: provider after provider, and the
\* mirror URLs of a provider in their order
RECURSIVE UrlsFrom(_, _)
UrlsFrom(c, pi) ==
  IF pi > Len(Providers(c)) THEN <<>> ELSE Providers(c)[pi].urls \o UrlsFrom(c, pi + 1)

\* C10: the calls a chain has made in a request are the first of its URLs in
\* declared order, each once: no URL is called twice, none out of order, at
\* most 3 for silver and at most 2+4+2+1+1+1 = 11 for USD/ILS.
C10_FixedOrderNoRetry ==
  /\ Len(UrlsFrom("silver", 1)) = 3
  /\ Len(UrlsFrom("usdIls", 1)) = 11
  /\ \A c \in Chains :
       /\ Len(started[c]) <= Len(UrlsFrom(c, 1))
       /\ \A i \in 1..Len(started[c]) : started[c][i] = UrlsFrom(c, 1)[i]
       /\ \A i, j \in 1..Len(started[c]) : i # j => started[c][i] # started[c][j]
       /\ \A i \in 1..Len(attempts[c]) : attempts[c][i].pi = i

\* a request in which the silver chain has made its 3 calls and the USD/ILS
\* chain its 11
C10_Witness ==
  /\ Len(started["silver"]) = 3
  /\ Len(started["usdIls"]) = 11
\* the value, label and timestamp the success body shows for chain c are those
\* of the quote q as json() writes them
ShowsQuote(c, value, q) ==
  /\ Market(value) = JsonStringify(JNum(q.value))
  /\ Get(Market("sources"), c) = JStr(q.source)
  /\ Get(Market("updatedAt"), c) = q.fetchedAt

\* C11: in a success response the value, the source label and the timestamp
\* shown for a chain are those of one quote, returned by one successful provider
\* attempt of that chain in this request; the silver label is one of the three
\* and the USD/ILS label one of the six sources the README lists.
C11_QuoteFromOneAttempt ==
  response.status = 200 =>
    /\ \E i \in 1..Len(attempts["silver"]) :
         /\ attempts["silver"][i].res.ok
         /\ ShowsQuote("silver", "silverUsdPerOunce", attempts["silver"][i].res.val)
    /\ \E i \in 1..Len(attempts["usdIls"]) :
         /\ attempts["usdIls"][i].res.ok
         /\ ShowsQuote("usdIls", "usdIls", attempts["usdIls"][i].res.val)
    /\ Get(Market("sources"), "silver").s \in ReadmeSilverSources
    /\ Get(Market("sources"), "usdIls").s \in ReadmeUsdIlsSources

\* a success response whose quotes come from the last provider of each chain,
\* after every provider before it failed
C11_Witness ==
  /\ response.status = 200
  /\ Len(attempts["silver"]) = 3
  /\ Len(attempts["usdIls"]) = 6
  /\ Get(Market("sources"), "silver") = JStr("metals.live")
  /\ Get(Market("sources"), "usdIls") = JStr("exchangerate.host")
\* the quote the last provider invoked by chain c returned
LastQuote(c) == attempts[c][Len(attempts[c])].res.val

Failures(c) == SelectSeq(attempts[c], LAMBDA a : ~a.res.ok)

\* the provider after the k-th attempt of chain c has been invoked: it has
\* settled, or its call is in flight
NextProviderInvoked(c, k) ==
  IF k < Len(attempts[c])
    THEN attempts[c][k + 1].pi = attempts[c][k].pi + 1
    ELSE /\ chain[c].status = "running"
         /\ chain[c].pi = attempts[c][k].pi + 1
         /\ CurrentUrl(c, chain[c]) \in inflight[c]

\* C16: every failure of a provider attempt, whatever its kind, is caught by
\* the chain loop: it is recorded as one failure message, in order, and while a
\* later provider is untried that provider is invoked next; a chain fails, and
\* the request with it, only when every provider of the chain has failed.
C16_EveryFailureCaught ==
  /\ \A c \in Chains :
       /\ Len(chain[c].errors) = Len(Failures(c))
       /\ \A i \in 1..Len(Failures(c)) : chain[c].errors[i] = Failures(c)[i].res.msg
       /\ \A k \in 1..Len(attempts[c]) :
            (~attempts[c][k].res.ok /\ attempts[c][k].pi < Len(Providers(c)))
              => NextProviderInvoked(c, k)
       /\ chain[c].status = "rejected" =>
            /\ Len(attempts[c]) = Len(Providers(c))
            /\ \A k \in 1..Len(attempts[c]) : ~attempts[c][k].res.ok
  /\ (response # NoResponse /\ response.status = 500) =>
       \E c \in Chains : Len(Failures(c)) = Len(Providers(c))

\* the silver chain returns the quote of metals.live after a non-success HTTP
\* status at stooq.com and a null payload at gold-api.com, while the USD/ILS
\* chain has gone on after a connection error and a timeout abort
C16_Witness ==
  /\ chain["silver"].status = "fulfilled"
  /\ Len(attempts["silver"]) = 3
  /\ attempts["silver"][1].res = stooqProvider(HttpError(503))
  /\ attempts["silver"][2].res = goldApiProvider(JsonBody(JNull))
  /\ Len(attempts["usdIls"]) >= 2
  /\ ~attempts["usdIls"][2].res.ok
  /\ attempts["usdIls"][2].res.msg
       = Providers("usdIls")[2].failed
           \o boiUrls[1] \o ": " \o boiXmlAttempt(Aborted).msg
           \o " | " \o boiUrls[2] \o ": " \o boiXmlAttempt(TextBody(" ")).msg
           \o " | " \o boiUrls[3] \o ": " \o boiXmlAttempt(HttpError(404)).msg
           \o " | " \o boiUrls[4] \o ": " \o boiXmlAttempt(TextBody(BoiXml(XmlBlock("USD", "")))).msg

\* the three Bank of Israel providers of the USD/ILS chain
BoiProviders == {pi \in DOMAIN UsdIlsProviders : UsdIlsProviders[pi].mirrored}

\* how many calls the USD/ILS chain makes before the first URL of provider pi
CallsBefore(pi) == Len(UrlsFrom("usdIls", 1)) - Len(UrlsFrom("usdIls", pi))

\* how many URLs of provider pi have been called
Called(pi) ==
  IF Len(started["usdIls"]) <= CallsBefore(pi) THEN 0
  ELSE IF Len(started["usdIls"]) - CallsBefore(pi) >= Len(UsdIlsProviders[pi].urls)
    THEN Len(UsdIlsProviders[pi].urls)
    ELSE Len(started["usdIls"]) - CallsBefore(pi)

\* the i-th URL of provider pi followed by a reason for which it can fail
UrlFailures(pi, i) ==
  {UsdIlsProviders[pi].urls[i] \o ": " \o r.msg :
     r \in {x \in AttemptResults["usdIls"][pi][i] : ~x.ok}}

\* the messages that hold, for every URL of provider pi from the i-th on, in
\* order, that URL followed by its failure reason
RECURSIVE MirrorMessages(_, _)
MirrorMessages(pi, i) ==
  IF i = Len(UsdIlsProviders[pi].urls)
    THEN UrlFailures(pi, i)
    ELSE {first \o " | " \o rest :
            first \in UrlFailures(pi, i), rest \in MirrorMessages(pi, i + 1)}

\* C17: each Bank of Israel provider calls its mirror URLs in declared order;
\* it returns the quote of the first URL that fetches and parses, the URLs
\* before it having failed, and calls no later URL; it fails only when all its
\* URLs have been called and failed, with one message that holds every URL in
\* order, each followed by its failure reason.
C17_MirrorsFirstSuccess ==
  \A pi \in BoiProviders :
    /\ \A i \in 1..Called(pi) :
         started["usdIls"][CallsBefore(pi) + i] = UsdIlsProviders[pi].urls[i]
    /\ (chain["usdIls"].status # "idle" /\ chain["usdIls"].pi = pi) =>
         /\ chain["usdIls"].mi = Called(pi)
         /\ Len(chain["usdIls"].urlErrors) \in {Called(pi) - 1, Called(pi)}
         /\ \A i \in 1..Len(chain["usdIls"].urlErrors) :
              chain["usdIls"].urlErrors[i] \in UrlFailures(pi, i)
    /\ \A k \in 1..Len(attempts["usdIls"]) :
         attempts["usdIls"][k].pi = pi =>
           IF attempts["usdIls"][k].res.ok
             THEN /\ attempts["usdIls"][k].res \in AttemptResults["usdIls"][pi][Called(pi)]
                  /\ Len(chain["usdIls"].urlErrors) = Called(pi) - 1
                  /\ Len(started["usdIls"]) = CallsBefore(pi) + Called(pi)
                  /\ inflight["usdIls"] = {}
             ELSE /\ Called(pi) = Len(UsdIlsProviders[pi].urls)
                  /\ attempts["usdIls"][k].res.msg
                       \in {UsdIlsProviders[pi].failed \o m : m \in MirrorMessages(pi, 1)}

\* the XML provider has returned the quote of its third URL after its first
\* two URLs failed, the two URLs of the Public API provider having failed
C17_Witness ==
  /\ chain["usdIls"].status = "fulfilled"
  /\ Len(attempts["usdIls"]) = 2
  /\ ~attempts["usdIls"][1].res.ok
  /\ attempts["usdIls"][2].res.ok
  /\ Called(2) = 3
  /\ Len(chain["usdIls"].urlErrors) = 2

\* the other chain
Sibling(c) == IF c = "silver" THEN "usdIls" ELSE "silver"

\* what chain c can be after the call it has in flight settles, whatever the
\* state of the other chain
AfterOwnCall(c) ==
  {Resume(c, chain[c], res) : res \in AttemptResults[c][chain[c].pi][chain[c].mi]}

\* a call of chain c settles in this step of a request
OwnCallSettles(c) ==
  /\ phase # "idle"
  /\ phase' # "idle"
  /\ chain'[c] # chain[c]

\* C20: when a call of one chain settles, by a timeout, a failure or a success,
\* the other chain keeps its state, its call in flight, the calls it has made
\* and the results of its attempts; and what the chain becomes depends on its
\* own state and on the outcome of its own call only.
C20_SiblingUntouched ==
  [][\A c \in Chains :
       OwnCallSettles(c) =>
         /\ chain'[Sibling(c)] = chain[Sibling(c)]
         /\ inflight'[Sibling(c)] = inflight[Sibling(c)]
         /\ started'[Sibling(c)] = started[Sibling(c)]
         /\ attempts'[Sibling(c)] = attempts[Sibling(c)]
         /\ chain'[c] \in AfterOwnCall(c)]_vars

\* the call of the silver chain to stooq.com has timed out and the first call
\* of the USD/ILS chain, started with it, is still in flight
C20_Witness ==
  /\ Len(attempts["silver"]) >= 1
  /\ attempts["silver"][1].res = stooqProvider(Aborted)
  /\ chain["usdIls"].status = "running"
  /\ Len(started["usdIls"]) = 1
  /\ inflight["usdIls"] = {publicApiUrls[1]}

\* the label provider pi of chain c gives to its quotes
LabelOf(c, pi) ==
  (CHOOSE r \in UNION {AttemptResults[c][pi][mi] : mi \in DOMAIN AttemptResults[c][pi]} :
     r.ok).val.source

\* the source listed at position j for chain c failed in this request
ListedSourceFailed(c, j) ==
  \E k \in DOMAIN attempts[c] :
    ~attempts[c][k].res.ok /\ LabelOf(c, attempts[c][k].pi) = ReadmeOrder(c)[j]

\* C26: the fallback priority of a chain is the order of the README list: the
\* source of the quote a chain returns is a source of the list, and every
\* source listed before it has failed in that request.
C26_ReadmeOrderIsPriority ==
  \A c \in Chains :
    chain[c].status = "fulfilled" =>
      \E i \in DOMAIN ReadmeOrder(c) :
        /\ ReadmeOrder(c)[i] = chain[c].value.source
        /\ \A j \in 1..(i - 1) : ListedSourceFailed(c, j)

(***************************************************************************)
(* Properties of the visit statistics, under VisitSpec.                    *)
(***************************************************************************)
\* the Bearer token a request presents, "" when it presents none
PresentedBearer(req) ==
  CASE req.authorization = JStr("Bearer s3cret") -> "s3cret"
    [] req.authorization = JStr("bearer  s3cret ") -> "s3cret"
    [] req.authorization = JStr("Bearer wrong") -> "wrong"
    [] OTHER -> ""

\* the ?token= value a request presents, "" when it presents none
PresentedQuery(req) ==
  CASE req.token = JStr("s3cret") -> "s3cret"
    [] req.token = JStr(" s3cret ") -> "s3cret"
    [] req.token = JStr("wrong") -> "wrong"
    [] OTHER -> ""

\* the token a request presents: its Bearer token if it has one, otherwise
\* its ?token= value (white space around a token aside)
Presented(req) ==
  IF PresentedBearer(req) # "" THEN PresentedBearer(req) ELSE PresentedQuery(req)

\* the admin token is set and the request presents it
HoldsAdminToken(req) == ADMIN_STATS_TOKEN # "" /\ Presented(req) = ADMIN_STATS_TOKEN

\* C13: a request for GET /api/visits or GET /admin/visits is answered 404
\* "Not found", a response without counters, unless ADMIN_STATS_TOKEN is set and
\* the token presented (the Bearer token if there is one, otherwise the ?token=
\* value) equals it; only then is it answered 200, or 500 when the statistics
\* could not be loaded, or still awaited; with ADMIN_STATS_TOKEN unset every
\* such request is answered 404.
C13_StatsOnlyWithAdminToken ==
  statsRequest # NoRequest =>
    /\ ~HoldsAdminToken(statsRequest) =>
         /\ statsReply = NotFound
         /\ Get(statsReply.body, "visits") = Undefined
    /\ HoldsAdminToken(statsRequest) =>
         \/ statsReply = NoResponse
         \/ statsReply.status = 200
         \/ statsReply = FailureResponse(MkdirError)
    /\ ADMIN_STATS_TOKEN = "" => statsReply = NotFound

\* the counters, one visit counted after the five of the file, are sent to a
\* request that has no Bearer token and presents the admin token as ?token=
C13_Witness ==
  /\ statsRequest # NoRequest
  /\ PresentedBearer(statsRequest) = ""
  /\ statsReply.status = 200
  /\ Get(Get(statsReply.body, "visits"), "totalVisits") = JNum(Whole(6))
\* no request that is to be counted still awaits loadVisitStats
NothingToCount == \A i \in 1..Len(tracking) : tracking[i].pc # "load"

\* C14: every GET / and every GET /index.html increases totalVisits by exactly
\* one: once every request that arrived has been counted, totalVisits is the
\* total read from the file plus the number of GET / and GET /index.html
\* requests that arrived.
C14_EveryHomeRequestCounted ==
  NothingToCount => visitStats.totalVisits = loaded.totalVisits + homeVisits

IsPayload(result) == result.ok

IsAbortError(result) == ~result.ok /\ result.msg = "This operation was aborted"

IsHttpError(result) ==
  ~result.ok /\ result.msg \in {"HTTP 300", "HTTP 404", "HTTP 503"}

IsOtherError(result) ==
  ~result.ok /\ result.msg \in {"fetch failed", "Unexpected end of JSON input"}

OutcomesOf(result) ==
  {kind \in {"payload", "http", "abort", "other"} :
     \/ kind = "payload" /\ IsPayload(result)
     \/ kind = "http" /\ IsHttpError(result)
     \/ kind = "abort" /\ IsAbortError(result)
     \/ kind = "other" /\ IsOtherError(result)}

Pending(fc) == fc.pc \in {"fetch", "body"}

\* C18: an invocation of fetchJson / fetchText makes exactly one outbound
\* request and ends once, in exactly one of four outcomes; it is never pending
\* more than 5 seconds: when the 5 seconds have passed, also while the body is
\* read, it fails with the abort error, which no other failure gives; once it
\* has ended its timer is not armed, so that no abort fires afterwards.
C18_OneRequestOneOutcomeTimeout ==
  /\ fetchCall.pc # "idle" => fetchCall.requests = 1
  /\ Pending(fetchCall) =>
       /\ fetchCall.settles = 0
       /\ fetchCall.result = NoResult
       /\ fetchCall.elapsed <= 5000
       /\ fetchCall.timer = "armed"
       /\ ~fetchCall.aborted
  /\ fetchCall.pc = "settled" =>
       /\ fetchCall.settles = 1
       /\ Cardinality(OutcomesOf(fetchCall.result)) = 1
       /\ fetchCall.timer # "armed"
       /\ IsAbortError(fetchCall.result) <=> fetchCall.aborted
       /\ fetchCall.aborted => fetchCall.elapsed >= 5000

\* an invocation has been aborted at 5 seconds while it was reading the body
\* of a response with a success status
C18_Witness ==
  /\ fetchCall.pc = "settled"
  /\ fetchCall.bodyReads = 1
  /\ fetchCall.elapsed = 5000
  /\ IsAbortError(fetchCall.result)

\* the response has this status and the status is outside the success range
OutsideSuccessRange(status) == status \in {300, 404, 503}

\* "HTTP <status>" for the statuses outside the success range
HttpMessage(status) ==
  CASE status = 300 -> "HTTP 300"
    [] status = 404 -> "HTTP 404"
    [] status = 503 -> "HTTP 503"

\* C19: when the status of the response is outside the success range the
\* invocation fails with "HTTP <status>" at once and its body is never read;
\* a body is read only for a success status.
C19_HttpErrorWithoutBody ==
  /\ OutsideSuccessRange(fetchCall.status) =>
       /\ fetchCall.pc = "settled"
       /\ fetchCall.result = Throw(HttpMessage(fetchCall.status))
       /\ fetchCall.bodyReads = 0
  /\ fetchCall.bodyReads > 0 =>
       fetchCall.bodyReads = 1 /\ fetchCall.status \in {200, 204, 299}

\* fetchText has failed with "HTTP 503" without reading the body
C19_Witness ==
  /\ fetchCall.fn = "fetchText"
  /\ fetchCall.status = 503
  /\ fetchCall.result = Throw("HTTP 503")
  /\ fetchCall.bodyReads = 0
(***************************************************************************)
(* Properties of the functions applied to one value, under ParseSpec.      *)
(***************************************************************************)
Returned(fn) == argument.fn = fn /\ returned # NotReturned

\* the instant a timestamp field stands for, NaN when it stands for none
InstantOf(stamp) ==
  CASE stamp = JStr("2024-01-15") -> Whole(1705276800)
    [] stamp = JNum(Whole(1705276951)) -> Whole(1705276951)
    [] stamp = JNum(Kilo(Whole(1705276951))) -> Whole(1705276951)
    [] OTHER -> NaN

\* the first of the timestamp fields that stands for an instant, else now
RECURSIVE FirstInstant(_)
FirstInstant(stamps) ==
  IF stamps = <<>> THEN NowIso
  ELSE IF ~IsNaN(InstantOf(Head(stamps))) THEN Iso(InstantOf(Head(stamps)))
  ELSE FirstInstant(Tail(stamps))

\* C21: whatever the timestamp fields of the body are (missing, empty, of a
\* wrong type, unparseable), a provider that extracted a valid rate returns a
\* quote with that rate, whose fetchedAt is the instant of the first field that
\* normalizes, or the current time when none does: never null, never a failure.
C21_FreshnessNeverFails ==
  Returned("provider") =>
    /\ returned.ok
    /\ returned.val.value = Rat(37, 10)
    /\ returned.val.fetchedAt = FirstInstant(argument.value.stamps)
    /\ returned.val.fetchedAt # JNull

\* open.er-api.com with an unparseable time_last_update_unix and a
\* time_last_update_utc that parses gives a quote dated by the second
C21_Witness ==
  /\ Returned("provider")
  /\ argument.value = [pi |-> 5, stamps |-> <<JStr("soon"), JStr("2024-01-15")>>]
  /\ returned.ok
  /\ returned.val.fetchedAt = Iso(Whole(1705276800))

\* the unix time in seconds of the instant toIsoTimestamp gives, per value
SecondsAndMilliseconds ==
  << <<JNum(Whole(1700000000)), Whole(1700000000)>>,
     <<JNum(Kilo(Whole(1700000000))), Whole(1700000000)>>,
     <<JNum(Whole(1705321800)), Whole(1705321800)>>,
     <<JNum(Kilo(Whole(1705321800))), Whole(1705321800)>>,
     <<JNum(Kilo(Rat(2000000001, 2))), Rat(2000000001, 2)>>,
     <<JNum(Kilo(Whole(1000000000))), Kilo(Whole(1000000000))>>,
     <<JNum(Kilo(Whole(999999999))), Kilo(Whole(999999999))>>,
     <<JNum(Whole(1000000000)), Whole(1000000000)>>,
     <<JNum(Whole(0)), Whole(0)>>,
     <<JNum(Whole(-86400)), Whole(-86400)>> >>

\* C22: toIsoTimestamp takes a finite number strictly above 10^12 as
\* milliseconds and any other finite number, 10^12 included, as seconds, so
\* that 1700000000 and 1700000000000 give the same instant; an unparseable
\* string gives null and nothing is thrown.
C22_SecondsOrMilliseconds ==
  Returned("toIsoTimestamp") =>
    /\ returned.ok
    /\ \A i \in DOMAIN SecondsAndMilliseconds :
         argument.value = SecondsAndMilliseconds[i][1] =>
           returned.val = Iso(SecondsAndMilliseconds[i][2])
    /\ argument.value \in {JStr("soon"), JStr("1700000000"), JStr(""), JStr("   ")} =>
         returned.val = JNull

\* 1700000000000 has given the instant of 1700000000
C22_Witness ==
  /\ Returned("toIsoTimestamp")
  /\ argument.value = JNum(Kilo(Whole(1700000000)))
  /\ returned.val = Iso(Whole(1700000000))
\* the number normalizeNumber gives, per string
Normalized ==
  << <<"1,234.56", Rat(123456, 100)>>, <<"1234,56", Rat(123456, 100)>>,
     <<"1234.56", Rat(123456, 100)>>, <<" 3,65 ", Rat(365, 100)>>, <<"3.7", Rat(37, 10)>>,
     <<"1,234,567.8", Rat(12345678, 10)>>, <<"1.234,56", Rat(123456, 100000)>>,
     <<"-2,5", Rat(-25, 10)>>, <<",5", Rat(5, 10)>>, <<"5,", Whole(5)>>, <<"12", Whole(12)>>,
     <<"abc", NaN>>, <<"", NaN>>, <<"   ", NaN>>, <<"1,234,567", NaN>>, <<"1 234", NaN>>,
     <<"3,7 ILS", NaN>> >>

\* C23: normalizeNumber returns a number unchanged; of a string, trimmed, with
\* both ',' and '.', it removes every ',' and reads '.' as the decimal point;
\* with ',' only it reads the comma as the decimal point; otherwise it parses
\* the string as it is; the empty string, a value that is neither a string nor
\* a number and what cannot be parsed give NaN.
C23_NormalizeNumber ==
  Returned("normalizeNumber") =>
    /\ returned.ok
    /\ argument.value.t = "number" => returned.val = argument.value.v
    /\ argument.value.t \notin {"number", "string"} => returned.val = NaN
    /\ argument.value.t = "string" =>
         \E i \in DOMAIN Normalized :
           argument.value.s = Normalized[i][1] /\ returned.val = Normalized[i][2]

\* "1234,56" has given 1234.56
C23_Witness ==
  /\ Returned("normalizeNumber")
  /\ argument.value = JStr("1234,56")
  /\ returned.val = Rat(123456, 100)
\* the errors of parseBoiRepresentativeUsdIls
BoiXmlErrors ==
  [empty |-> "empty Bank of Israel XML",
   block |-> "USD currency block missing in Bank of Israel XML",
   rate |-> "USD representative rate missing in Bank of Israel XML"]

IsUsd(code) == code \in {"USD", "usd", "Usd"}

\* the position of the first USD block of a document, 0 when it has none
FirstUsd(currencies) ==
  IF \E i \in DOMAIN currencies : IsUsd(currencies[i].code)
    THEN CHOOSE i \in DOMAIN currencies :
           /\ IsUsd(currencies[i].code)
           /\ \A j \in 1..(i - 1) : ~IsUsd(currencies[j].code)
    ELSE 0

\* the number a RATE text stands for
RateOf(text) ==
  CASE text = "3.7" -> Rat(37, 10)
    [] text = "3,65" -> Rat(365, 100)
    [] text = "3.65" -> Rat(365, 100)
    [] text = "4.05" -> Rat(405, 100)
    [] text = "4.7" -> Rat(47, 10)
    [] OTHER -> NaN

\* C24: for every document, whatever the number and order of its CURRENCY
\* blocks, parseBoiRepresentativeUsdIls returns the RATE of the block whose
\* CURRENCYCODE is USD in any case, never the RATE of another block; it fails
\* with its labeled error when the document is empty, has no USD block, or the
\* USD block has no finite RATE.
C24_RateOfUsdBlock ==
  Returned("parseBoiRepresentativeUsdIls") =>
    IF ~argument.value.document THEN returned = Throw(BoiXmlErrors.empty)
    ELSE IF FirstUsd(argument.value.currencies) = 0 THEN returned = Throw(BoiXmlErrors.block)
    ELSE IF IsNaN(RateOf(argument.value.currencies[FirstUsd(argument.value.currencies)].rate))
      THEN returned = Throw(BoiXmlErrors.rate)
      ELSE /\ returned.ok
           /\ returned.val.rate
                = RateOf(argument.value.currencies[FirstUsd(argument.value.currencies)].rate)
\* the column names that are value-like and those that are date-like
ValueLike == {"OBS_VALUE", "VALUE", "value"}

DateLike == {"TIME_PERIOD", "date"}

\* the first column of the header with a name of the set, 0 when there is none
FirstColumn(header, names) ==
  IF \E i \in DOMAIN header : header[i] \in names
    THEN CHOOSE i \in DOMAIN header :
           header[i] \in names /\ \A j \in 1..(i - 1) : header[j] \notin names
    ELSE 0

\* the number a cell stands for
CellNumber(cell) ==
  CASE cell = "3.7" -> Rat(37, 10)
    [] cell = "3.6" -> Rat(36, 10)
    [] cell = "3,65" -> Rat(365, 100)
    [] cell = "3.65" -> Rat(365, 100)
    [] cell = "12" -> Whole(12)
    [] cell = "9" -> Whole(9)
    [] cell = "2024" -> Whole(2024)
    [] OTHER -> NaN

\* the first finite number of a row scanned from its end, NaN when it has none
ScannedFromEnd(row) ==
  IF \E i \in DOMAIN row : ~IsNaN(CellNumber(row[i]))
    THEN CellNumber(row[CHOOSE i \in DOMAIN row :
                          /\ ~IsNaN(CellNumber(row[i]))
                          /\ \A j \in (i + 1)..Len(row) : IsNaN(CellNumber(row[j]))])
    ELSE NaN

\* the rate of a row: that of the named value column when the header has one,
\* otherwise the first finite number from the end of the row
RateOfRow(header, row) ==
  IF FirstColumn(header, ValueLike) = 0 THEN ScannedFromEnd(row)
  ELSE IF FirstColumn(header, ValueLike) > Len(row) THEN NaN
  ELSE CellNumber(row[FirstColumn(header, ValueLike)])

\* the observation date of a row: the cell of the date-like column, else null
DateOfRow(header, row) ==
  IF FirstColumn(header, DateLike) \in 1..Len(row)
    THEN JStr(row[FirstColumn(header, DateLike)])
    ELSE JNull

\* C25: parseBoiEdgeRepresentativeUsdIls needs a header line and a data line;
\* the last non-blank line is the data row; the rate is the cell of the first
\* value-like column of the header and the date the cell of the first
\* date-like column; the row is scanned from the end for a finite number only
\* if the header has no value-like column; it fails when no finite number is
\* found.
C25_NamedColumnsThenScan ==
  (Returned("parseBoiEdgeRepresentativeUsdIls") /\ argument.value.document) =>
    IF argument.value.table.rows = <<>>
      THEN returned = Throw("unexpected BOI edge CSV response")
    ELSE IF IsNaN(RateOfRow(argument.value.table.header,
                            argument.value.table.rows[Len(argument.value.table.rows)]))
      THEN returned = Throw("USD representative rate missing in BOI edge CSV")
      ELSE /\ returned.ok
           /\ returned.val.rate
                = RateOfRow(argument.value.table.header,
                            argument.value.table.rows[Len(argument.value.table.rows)])
           /\ returned.val.lastUpdate
                = DateOfRow(argument.value.table.header,
                            argument.value.table.rows[Len(argument.value.table.rows)])
(***************************************************************************)
(* Properties of the pricing pipeline when every call settles (LiveSpec)   *)
(***************************************************************************)

\* the request being served has sent no response yet
Unanswered == phase = "pending"

\* the request being served has sent its one response, a success or a failure
AnsweredOnce ==
  /\ phase = "responded"
  /\ sent = 1
  /\ response.status \in {200, 500}

\* C27: when every outbound call settles, a request that is being served is
\* eventually answered, with exactly one response of status 200 or 500; no
\* request ever has two responses, none is answered while marked unanswered,
\* and when the response goes out the silver chain has made at most 3 calls
\* and the USD/ILS chain at most 11.
C27_EveryRequestAnsweredOnce ==
  /\ [](sent <= 1)
  /\ [](Unanswered => sent = 0)
  /\ [](phase = "responded" =>
          /\ AnsweredOnce
          /\ Len(started["silver"]) <= 3
          /\ Len(started["usdIls"]) <= 11)
  /\ (Unanswered ~> AnsweredOnce)

\* a request answered 500 after the silver chain made its 3 calls, all
\* failed, while the USD/ILS chain is still at one of its calls
C27_Witness ==
  /\ AnsweredOnce
  /\ response.status = 500
  /\ Len(started["silver"]) = 3
  /\ chain["silver"].status = "rejected"
  /\ chain["usdIls"].status = "running"
(***************************************************************************)
(* Properties of the counters in memory (VisitSpec)                        *)
(***************************************************************************)

\* the counters in memory are those read at start-up plus one for each call
\* that has gone past the load
LoadedPlusPassed ==
  /\ visitStats.totalVisits = loaded.totalVisits + passed["visit"]
  /\ visitStats.totalDonationClicks = loaded.totalDonationClicks + passed["click"]

\* nothing has been counted and nothing read
NothingCountedYet ==
  /\ visitStats = EMPTY_VISIT_STATS
  /\ loaded = EMPTY_VISIT_STATS
  /\ passed["visit"] = 0 /\ passed["click"] = 0
  /\ fileReads = 0

\* C28: the statistics file is read at most once, and exactly once when the
\* load has finished; until it has, nothing is counted; at every moment
\* totalVisits is the loaded value plus the number of trackVisit calls that
\* have passed the load, totalDonationClicks the loaded value plus the number
\* of trackDonationClick calls that have; no step decreases either counter.
C28_NoUpdateLost ==
  /\ [](fileReads <= 1)
  /\ [](visitStatsLoadPromise = "fulfilled" => fileReads = 1)
  /\ [](visitStatsLoadPromise # "fulfilled" => NothingCountedYet)
  /\ [](LoadedPlusPassed)
  /\ [][/\ visitStats'.totalVisits >= visitStats.totalVisits
        /\ visitStats'.totalDonationClicks >= visitStats.totalDonationClicks]_vars

\* the file held 5 visits and 2 clicks; two visits and one click have been
\* counted after the one load that read it
C28_Witness ==
  /\ visitStatsLoadPromise = "fulfilled"
  /\ fileReads = 1
  /\ loaded.totalVisits = 5 /\ loaded.totalDonationClicks = 2
  /\ passed["visit"] = 2 /\ passed["click"] = 1
  /\ visitStats.totalVisits = 7 /\ visitStats.totalDonationClicks = 3
(***************************************************************************)
(* Properties of the responses to tracked requests (VisitSpec)             *)
(***************************************************************************)

\* the response to a tracked request whose tracking succeeded
WhenTracked(kind) ==
  IF kind = "visit" THEN [status |-> 200, body |-> JStr("index.html")]
                    ELSE [status |-> 204, body |-> JStr("")]

\* C29: the response to a tracked request does not depend on whether
\* tracking threw, nor on where: a home page request whose tracking threw in
\* the load, in mkdir or in writeFile is answered with the page as one whose
\* tracking succeeded, and POST /api/donation-click is answered 204 in
\* every case.
C29_AnalyticsFailureNeverFailsRequest ==
  \A a \in answers :
    /\ a.reply = WhenTracked(a.kind)
    /\ a.kind = "click" => a.reply.status = 204
    /\ a.kind = "visit" => a.reply.status = 200

\* a home page request whose tracking threw in mkdir, a donation click whose
\* tracking threw in writeFile and a home page request that was tracked have
\* been answered
C29_Witness ==
  /\ \E a \in answers : a.kind = "visit" /\ a.failed = "mkdir"
  /\ \E a \in answers : a.kind = "click" /\ a.failed = "write"
  /\ \E a \in answers : a.kind = "visit" /\ a.failed = ""

\* a home page request and a donation click have been answered after the
\* load of the statistics threw
C29_LoadThrew ==
  /\ visitStatsLoadPromise = "rejected"
  /\ \E a \in answers : a.kind = "visit" /\ a.failed = "load"
  /\ \E a \in answers : a.kind = "click" /\ a.failed = "load"
(***************************************************************************)
(* Properties of the page (PageSpec)                                       *)
(***************************************************************************)

\* the attempt that ended with o yielded a body that parses as JSON, with an
\* ok status and success = true
Succeeds(o) ==
  /\ o.kind = "response"
  /\ o.valid
  /\ o.status \in 200..299
  /\ o.data.t = "object"
  /\ Get(o.data, "success") = JBool(TRUE)

\* the message of the error the attempt that ended with o failed with
ErrorOfAttempt(o) == IF o.kind = "network" THEN "Failed to fetch" ELSE TextRead(o).msg

\* the attempts that have ended and after which the function waits
FollowedByWait(outcomes) == {i \in 1..Len(outcomes) : ~Succeeds(outcomes[i]) /\ i < 3}

\* C30: a call fetchHalfShekelWithRetry(3) has made between 1 and 3
\* requests, each after the one before had ended and, as that one had failed,
\* after a wait; it has returned exactly if an attempt succeeded, which is
\* then the last one made, and it has returned the data of that attempt; it
\* has waited 900 ms once for each failed attempt other than the third; it
\* has thrown exactly if three attempts have failed, and then the error of the
\* third.
C30_RetryThreeTimes ==
  retry.pc # "idle" =>
    /\ retry.made \in 1..3
    /\ retry.made = Len(retry.outcomes) + (IF retry.pc \in {"fetch", "text"} THEN 1 ELSE 0)
    /\ \A i \in 1..Len(retry.outcomes) :
         Succeeds(retry.outcomes[i]) =>
           /\ i = Len(retry.outcomes)
           /\ retry.pc = "returned"
           /\ retry.result = Ok(retry.outcomes[i].data)
    /\ retry.pc = "returned" =>
         /\ retry.outcomes # <<>>
         /\ Succeeds(retry.outcomes[Len(retry.outcomes)])
    /\ retry.waits = [i \in 1..Cardinality(FollowedByWait(retry.outcomes)) |-> 900]
    /\ retry.pc \in {"fetch", "text"} => Len(retry.waits) = retry.made - 1
    /\ retry.pc = "sleep" => Len(retry.waits) = retry.made
    /\ retry.pc = "threw" <=>
         /\ Len(retry.outcomes) = 3
         /\ \A i \in 1..3 : ~Succeeds(retry.outcomes[i])
    /\ retry.pc = "threw" => retry.result = Throw(ErrorOfAttempt(retry.outcomes[3]))

\* three attempts have failed, the first as fetch rejected, the second with a
\* body that is no JSON, the third with the 500 of the server, whose error is
\* thrown after two waits
C30_Witness ==
  /\ retry.pc = "threw"
  /\ retry.made = 3
  /\ retry.outcomes[1].kind = "network"
  /\ retry.outcomes[2].kind = "response" /\ ~retry.outcomes[2].valid
  /\ retry.outcomes[3].kind = "response" /\ retry.outcomes[3].status = 500
  /\ retry.waits = <<900, 900>>
  /\ retry.result.msg =
       "Unable to load market data right now. Please try again in a minute."
       \o " (Unable to fetch USD/ILS rate: HTTP 503)"

\* the second attempt has succeeded after the first failed: its data are
\* returned after one wait and two requests
C30_SecondAttemptReturned ==
  /\ retry.pc = "returned"
  /\ retry.made = 2
  /\ ~Succeeds(retry.outcomes[1])
  /\ retry.waits = <<900>>
  /\ retry.result = Ok(Priced(42))
(***************************************************************************)
(* Properties of loadHalfShekel when every request settles (PageLiveSpec)  *)
(***************************************************************************)

\* the runs of loadHalfShekel that have begun and not ended
RunsInProgress == calls.runs - loads

\* this step is a call of loadHalfShekel
IsCall == calls'.all = calls.all + 1

\* this step is the end of a run of loadHalfShekel
IsEndOfRun == loads' = loads + 1

\* C31: at most one run of loadHalfShekel is in progress, and one is exactly
\* while isLoading is true; a call that arrives while isLoading is true
\* starts no run, sends no request and leaves the page as it is; a run ends
\* with isLoading false and the refresh button enabled, whether it shows data
\* or a failure; and when every request settles, a run that has begun ends.
C31_OneRunAtATime ==
  /\ [](RunsInProgress \in {0, 1})
  /\ [](isLoading <=> RunsInProgress = 1)
  /\ [](isLoading <=> retry.pc # "idle")
  /\ [][IsCall /\ isLoading =>
          /\ calls'.runs = calls.runs
          /\ retry' = retry
          /\ page' = page
          /\ isLoading']_vars
  /\ [][IsEndOfRun => ~isLoading' /\ ~page'.refreshDisabled]_vars
  /\ (isLoading ~> (~isLoading /\ ~page.refreshDisabled))

\* two runs have ended, the last one with a failure shown, and a third call
\* that arrived during one of them started nothing
C31_Witness ==
  /\ calls.all = 3
  /\ calls.runs = 2
  /\ loads = 2
  /\ ~isLoading
  /\ ~page.refreshDisabled
  /\ page.cardUpdatedText.fmt = "failed"

\* a run has ended with the data shown and the button enabled
C31_RunShowedData ==
  /\ loads = 1
  /\ ~isLoading
  /\ ~page.refreshDisabled
  /\ page.cardUpdatedText.fmt = "updated"
  /\ page.ilsValueWithVat = [fmt |-> "money",
                             value |-> [n |-> Whole(42), currency |-> "ILS", digits |-> 2]]

\* a run has ended after its own try block threw on data without a result
C31_RunThrewOnData ==
  /\ loads = 1
  /\ ~isLoading
  /\ ~page.refreshDisabled
  /\ page.cardUpdatedText =
       [fmt |-> "failed",
        value |-> JStr("Cannot read properties of undefined (reading 'halfShekelIlsWithVat')")]
====
